---- MODULE Spec2Model ----
(***************************************************************************)
(* Model of awsboxen's configuration loader (lib/config.js): the document  *)
(* merger mergeConfig, the directory loader loadConfig and the root config *)
(* resolver loadRootConfig; and of its template loader (lib/template.js):  *)
(* upgradeFromAWSBoxConfig and the steps of loadTemplate.                  *)
(*                                                                         *)
(* A JavaScript value is a record [t, v]: t is the kind of the value and v *)
(* its payload: the number for "num", the string's identity for "str", the *)
(* own enumerable properties (a function from property names to values)    *)
(* for "map" and "list", and 0 for "null", "undef" and "thrown".  A list   *)
(* is a JavaScript array: an object whose properties are the index strings *)
(* "0", "1", ...  The kind "thrown" stands for a call that raised an       *)
(* exception instead of returning.                                         *)
(***************************************************************************)
EXTENDS Integers, Sequences, FiniteSets, TLC

VARIABLES base, incoming, result, third, result2, root, baseNames, configDirOrPaths,
          loadRes, cfgIn, cfg, cfgTwice, opts, currentCommit, err, pc,
          paramFiles, defines, paramQueue, optsDefine,
          templateErr, versionCheck, boxNames, amiQueue, amiParams, calls,
          stack, lastStatus, polls,
          targetState, instanceState, statePolls,
          clearCached, boxProps, workDir, amiId, instanceId, launched, tornDown

mergeVars == <<base, incoming, result, third, result2>>
loadVars == <<root, baseNames, configDirOrPaths, loadRes>>
tplVars == <<cfgIn, cfg, cfgTwice, opts, currentCommit, err>>
optsVars == <<paramFiles, defines, paramQueue, optsDefine>>
deployVars == <<templateErr, versionCheck, boxNames, amiQueue, amiParams, calls>>
stackVars == <<stack, lastStatus, polls>>
waitVars == <<targetState, instanceState, statePolls>>
freezerVars == <<clearCached, boxProps, workDir, amiId, instanceId, launched, tornDown>>
envVars == <<optsVars, deployVars, stackVars, waitVars, freezerVars>>
vars == <<mergeVars, loadVars, tplVars, pc, envVars>>

(***************************************************************************)
(* Bounds of the model.                                                    *)
(***************************************************************************)
MaxLen == 2
MaxPolls == 2

(***************************************************************************)
(* JavaScript values.                                                      *)
(***************************************************************************)
Num(n) == [t |-> "num", v |-> n]
Str(n) == [t |-> "str", v |-> n]
Null == [t |-> "null", v |-> 0]
Undef == [t |-> "undef", v |-> 0]
Thrown == [t |-> "thrown", v |-> 0]
Obj(f) == [t |-> "map", v |-> f]
NoProps == [k \in {} |-> Null]
EmptyMap == Obj(NoProps)

\* The property name of array index i, and the array holding the sequence s.
IndexKey(i) == ToString(i)
ListOf(s) ==
  [t |-> "list",
   v |-> [k \in {IndexKey(i - 1) : i \in 1..Len(s)} |->
            s[CHOOSE i \in 1..Len(s) : IndexKey(i - 1) = k]]]

\* typeof(x) === 'object' holds of objects, of arrays and of null.
TypeofObject(x) == x.t \in {"map", "list", "null"}
IsMap(x) == x.t = "map"
IsList(x) == x.t = "list"
\* The own property names of a value that has properties; none otherwise.
OwnKeys(x) == IF x.t \in {"map", "list"} THEN DOMAIN x.v ELSE {}
HasOwn(x, k) == k \in OwnKeys(x)
\* The number of elements of an array: its index properties.
Length(x) == Cardinality({i \in 0..(MaxLen + MaxLen) : HasOwn(x, IndexKey(i))})

(***************************************************************************)
(* mergeConfig(orig, incoming), lib/config.js.  The loop assigns into orig *)
(* and returns it, so the result has orig's kind and orig's properties     *)
(* overwritten or extended by those of incoming.  orig.hasOwnProperty(key) *)
(* raises a TypeError when orig is null, which happens as soon as incoming *)
(* has one property to loop over.                                          *)
(***************************************************************************)
\* Variants of mergeConfig with one plausible slip each: a null in incoming
\* deletes the key instead of being stored; incoming's mapping replaces orig
\* instead of being merged into it.
RECURSIVE mergeConfigDeletes(_, _)
mergeConfigDeletes(orig, inc) ==
  IF ~TypeofObject(orig) THEN inc
  ELSE IF inc.t = "null" \/ ~TypeofObject(inc) THEN inc
  ELSE IF orig.t = "null"
    THEN IF OwnKeys(inc) = {} THEN orig ELSE Thrown
  ELSE
    LET sub(k) == IF HasOwn(orig, k)
                    THEN mergeConfigDeletes(orig.v[k], inc.v[k])
                    ELSE inc.v[k]
        dead == {k \in OwnKeys(inc) : inc.v[k] = Null}
    IN IF \E k \in OwnKeys(inc) \ dead : sub(k) = Thrown
         THEN Thrown
         ELSE [t |-> orig.t,
               v |-> [k \in (OwnKeys(orig) \cup OwnKeys(inc)) \ dead |->
                        IF HasOwn(inc, k) THEN sub(k) ELSE orig.v[k]]]

mergeConfigReplaces(orig, inc) == inc

RECURSIVE mergeConfig(_, _)
mergeConfig(orig, inc) ==
  IF ~TypeofObject(orig) THEN inc
  ELSE IF inc.t = "null" \/ ~TypeofObject(inc) THEN inc
  ELSE IF orig.t = "null"
    THEN IF OwnKeys(inc) = {} THEN orig ELSE Thrown
  ELSE
    LET sub(k) == IF HasOwn(orig, k)
                    THEN mergeConfig(orig.v[k], inc.v[k])
                    ELSE inc.v[k]
    IN IF \E k \in OwnKeys(inc) : sub(k) = Thrown
         THEN Thrown
         ELSE [t |-> orig.t,
               v |-> [k \in OwnKeys(orig) \cup OwnKeys(inc) |->
                        IF HasOwn(inc, k) THEN sub(k) ELSE orig.v[k]]]

(***************************************************************************)
(* The documents the merger is run on.                                     *)
(***************************************************************************)
Keys == {"a", "b"}
InnerKeys == {"x"}
Nums == {Num(1), Num(2)}
Maps(K, V) == UNION {[S -> V] : S \in SUBSET K}
SeqsUpTo(V, n) == UNION {[1..m -> V] : m \in 0..n}
Lists == {ListOf(s) : s \in SeqsUpTo(Nums, MaxLen)}
Leaves == Nums \cup {Null} \cup Lists
Deep == Obj([x |-> Num(1)])
InnerMaps == {Obj(f) : f \in Maps(InnerKeys, Nums \cup {Null, Deep})}
TopDocs == Leaves \cup {Obj(f) : f \in Maps(Keys, Leaves \cup InnerMaps)}
SeqDocs == {Obj(f) : f \in Maps(Keys, {Num(1), Null, Deep})}
ThirdDocs == {Obj(f) : f \in Maps(Keys, {Num(2), Deep, EmptyMap})}

(***************************************************************************)
(* The file system.  A path is a name [base, ext] as path.extname and      *)
(* path.basename split it; a node is a file holding a parsed document or a *)
(* directory holding entries <<name, node>> in the order fs.readdir lists  *)
(* them, which is arbitrary.                                               *)
(***************************************************************************)
Name(b, e) == [base |-> b, ext |-> e]
File(d) == [kind |-> "file", doc |-> d, entries |-> <<>>]
Dir(es) == [kind |-> "dir", doc |-> Undef, entries |-> es]
Entry(n, node) == [name |-> n, node |-> node]
NoNode == [kind |-> "none", doc |-> Undef, entries |-> <<>>]

\* Results of the asynchronous loaders: cb(null, doc) or cb(err); "thrown"
\* is an exception of mergeConfig escaping from the final callback.
Ok(d) == [err |-> "none", doc |-> d]
Fail(e) == [err |-> e, doc |-> Undef]
NoResult == [err |-> "pending", doc |-> Undef]

CONFIG_FILE_EXTENSIONS == {".json", ".yml", ".yaml"}

\* The names of the model, in the order Array.prototype.sort puts the paths
\* of one directory (code unit order of base followed by ext), and the base
\* names in the order Object.keys(subConfigs).sort() puts them.
SortedNames ==
  << Name(".awsbox", ".json"), Name(".awsbox", ".yaml"), Name("Sub", ".json"),
     Name("awsboxen", ""), Name("awsboxen", ".yaml"), Name("notes", ".txt") >>
SortedKeys == << ".awsbox", ".awsboxen", "awsboxen" >>
Rank(n) == CHOOSE i \in 1..Len(SortedNames) : SortedNames[i] = n
KeyRank(k) == CHOOSE i \in 1..Len(SortedKeys) : SortedKeys[i] = k

\* entries.sort(): the entries by ascending rank of their names.
SortEntries(es) ==
  [i \in 1..Len(es) |->
     CHOOSE e \in {es[j] : j \in 1..Len(es)} :
       Cardinality({j \in 1..Len(es) : Rank(es[j].name) < Rank(e.name)}) = i - 1]

\* The sequence of the keys of the set K in sorted order.
SortKeys(K) ==
  [i \in 1..Cardinality(K) |->
     CHOOSE k \in K : Cardinality({j \in K : KeyRank(j) < KeyRank(k)}) = i - 1]

\* getBaseConfigName: the base name of a recognised path, "" (null) if the
\* path is neither a config file nor a directory.
getBaseConfigName(e) ==
  IF e.name.ext \in CONFIG_FILE_EXTENSIONS THEN e.name.base
  ELSE IF e.node.kind = "dir" THEN e.name.base
  ELSE ""

\* The content of a file that JSON.parse or jsyaml.safeLoad rejects.
Malformed == [t |-> "malformed", v |-> 0]

loadConfigFromFile(e) ==
  IF e.name.ext \notin CONFIG_FILE_EXTENSIONS
    THEN Fail("unrecognised config file type")
  ELSE IF e.node.doc = Malformed
    THEN Fail("parse error")
    ELSE Ok(e.node.doc)

\* A variant without the "did it produce any keys" test.
ProducedKeysAlways(d) == TRUE

\* for (var k in subConfig) finds an own property: objects and arrays with
\* properties, and non-empty strings (their characters).
ProducedKeys(d) == OwnKeys(d) # {} \/ d.t = "str"

\* The forEach of loadConfigFromSiblings over the results res[i..]:
\* config[res.key] = mergeConfig(config[res.key], res.subConfig).
RECURSIVE MergeSiblings(_, _, _)
MergeSiblings(res, i, config) ==
  IF i > Len(res) THEN Ok(Obj(config))
  ELSE IF res[i].key = "" THEN MergeSiblings(res, i + 1, config)
  ELSE
    LET key == res[i].key
        old == IF key \in DOMAIN config THEN config[key] ELSE Undef
        new == mergeConfig(old, res[i].subConfig)
    IN IF new = Thrown THEN Fail("thrown")
       ELSE MergeSiblings(res, i + 1,
              [k \in DOMAIN config \cup {key} |->
                 IF k = key THEN new ELSE config[k]])

\* loadConfig, loadConfigFromDir and loadConfigFromSiblings.  mapSeries
\* loads the children one after the other and fails with the first error;
\* a child without base name, or whose sub-config has no keys, gives
\* {key: null} and is left out of the merge.
RECURSIVE loadConfig(_)
RECURSIVE loadConfigFromSiblings(_)
loadConfigFromSiblings(es) ==
  LET load(i) == loadConfig(es[i])
      res == [i \in 1..Len(es) |->
                IF getBaseConfigName(es[i]) = "" \/ load(i).err # "none"
                     \/ ~ProducedKeys(load(i).doc)
                  THEN [key |-> "", subConfig |-> Undef]
                  ELSE [key |-> getBaseConfigName(es[i]),
                        subConfig |-> load(i).doc]]
      failed == {i \in 1..Len(es) :
                   getBaseConfigName(es[i]) # "" /\ load(i).err # "none"}
  IN IF failed # {}
       THEN load(CHOOSE i \in failed : \A j \in failed : i <= j)
       ELSE MergeSiblings(res, 1, NoProps)

\* A variant that processes the children in the order fs.readdir listed
\* them, without configDirOrPaths.sort().
loadConfigFromDirUnsorted(e) == loadConfigFromSiblings(e.node.entries)

loadConfigFromDir(e) == loadConfigFromSiblings(SortEntries(e.node.entries))

loadConfig(e) ==
  IF e.node.kind = "dir" THEN loadConfigFromDir(e) ELSE loadConfigFromFile(e)

\* The baseNames argument of loadRootConfig: not given, or a list of names.
NotGiven == [given |-> FALSE, names |-> {}]
Given(ns) == [given |-> TRUE, names |-> ns]
DefaultBaseNames == {"awsboxen", ".awsboxen", ".awsbox"}

\* The final forEach of loadRootConfig over the sorted keys ks[i..]:
\* config = mergeConfig(config, subConfigs[k]).
RECURSIVE MergeSubConfigs(_, _, _, _)
MergeSubConfigs(subConfigs, ks, i, config) ==
  IF i > Len(ks) THEN Ok(config)
  ELSE LET new == mergeConfig(config, subConfigs.v[ks[i]])
       IN IF new = Thrown THEN Fail("thrown")
          ELSE MergeSubConfigs(subConfigs, ks, i + 1, new)

loadAndMergeConfigPaths(configPaths) ==
  LET sib == loadConfigFromSiblings(configPaths)
  IN IF sib.err # "none" THEN sib
     ELSE MergeSubConfigs(sib.doc, SortKeys(OwnKeys(sib.doc)), 1, EmptyMap)

\* A variant of the search that goes on with no path found.
loadRootConfigNoCheck(dir, arg) ==
  LET names == IF arg.given THEN arg.names ELSE DefaultBaseNames
      found == SelectSeq(dir.entries, LAMBDA e : e.name.base \in names)
  IN loadAndMergeConfigPaths(SortEntries(found))

\* loadRootConfig on a project directory: the search for the children whose
\* name without extension is one of baseNames, then the load and merge.
loadRootConfig(dir, arg) ==
  LET names == IF arg.given THEN arg.names ELSE DefaultBaseNames
      found == SelectSeq(dir.entries, LAMBDA e : e.name.base \in names)
  IN IF Len(found) = 0
       THEN Fail("no config files found")
       ELSE loadAndMergeConfigPaths(SortEntries(found))

\* loadRootConfig on an array of paths: the array is used as it is given.
loadRootConfigPaths(paths) == loadAndMergeConfigPaths(paths)

(***************************************************************************)
(* The project directories the loaders are run on: any of the children     *)
(* below, with any contents, listed in any order.                          *)
(***************************************************************************)
XMap == Obj([x |-> Num(1)])
YMap == Obj([y |-> Num(2)])
FileDocs ==
  {EmptyMap, Obj([Sub |-> XMap]), Obj([Sub |-> YMap]), Obj([Sub |-> Str(1)]),
   Obj([Sub |-> Null]), Malformed}
InnerDocs == {EmptyMap, XMap, Str(1)}
SubDirs ==
  {Dir(<<>>)} \cup {Dir(<<Entry(Name("Sub", ".json"), File(d))>>) : d \in InnerDocs}
Absent == {NoNode}
Present(es) == SelectSeq(es, LAMBDA e : e.node.kind # "none")
Children ==
  {Present(<< Entry(Name(".awsbox", ".json"), a), Entry(Name(".awsbox", ".yaml"), b),
              Entry(Name("awsboxen", ""), c), Entry(Name("awsboxen", ".yaml"), d),
              Entry(Name("notes", ".txt"), e) >>) :
     a \in Absent \cup {File(doc) : doc \in FileDocs},
     b \in Absent \cup {File(doc) : doc \in FileDocs},
     c \in Absent \cup SubDirs,
     d \in Absent \cup {File(doc) : doc \in FileDocs},
     e \in Absent \cup {File(Str(1))}}
\* Orders in which fs.readdir may list the entries es: as they are, in
\* reverse, and rotated by one.
Reverse(es) == [i \in 1..Len(es) |-> es[Len(es) + 1 - i]]
Rotate(es) == [i \in 1..Len(es) |-> es[(i % Len(es)) + 1]]
Listings(es) == {es, Reverse(es), Rotate(es)}
RootDirs == {Dir(o) : o \in UNION {Listings(es) : es \in Children}}
ProjectDir == Name("project", "")
BaseNameArgs == {NotGiven, Given({"awsboxen"}), Given({"simple"}), Given({"notes"})}

(***************************************************************************)
(* The template loader, lib/template.js.  A string is Text(s) with the     *)
(* string itself as payload, so that names can be built and looked up.     *)
(* The documents are changed in place by the code; the operators below     *)
(* give the document after the change.                                     *)
(***************************************************************************)
Text(s) == [t |-> "str", v |-> s]
\* if (x): objects and arrays, non-empty strings and non-zero numbers.
Truthy(x) ==
  \/ x.t \in {"map", "list"}
  \/ x.t = "str" /\ x.v # ""
  \/ x.t = "num" /\ x.v # 0
Nullish(x) == x.t \in {"null", "undef"}
\* x[k], x[k] = y and delete x[k] for each k in K.
Get(x, k) == IF HasOwn(x, k) THEN x.v[k] ELSE Undef
Put(x, k, y) ==
  [t |-> x.t, v |-> [j \in OwnKeys(x) \cup {k} |-> IF j = k THEN y ELSE x.v[j]]]
Delete(x, K) == [t |-> x.t, v |-> [j \in OwnKeys(x) \ K |-> x.v[j]]]

CONFIG_TOP_LEVEL_KEYS ==
  {"Boxen", "Profiles", "AWSBoxenVersion", "AWSTemplateFormatVersion",
   "Description", "Parameters", "Resources", "Mappings", "Outputs"}

\* A variant of setDefaultBoxenType that wraps an entry whether or not it
\* has a Type.
setDefaultBoxenTypeRewraps(config) ==
  LET boxen == IF Truthy(Get(config, "Boxen")) THEN Get(config, "Boxen") ELSE EmptyMap
      typed(box) ==
        IF Truthy(box)
          THEN Put(IF ~Truthy(Get(box, "Properties")) \/ Truthy(Get(box, "Type"))
                     THEN Obj([Properties |-> box]) ELSE box,
                   "Type", Text("AWSBox"))
          ELSE box
  IN Put(config, "Boxen",
         [t |-> boxen.t, v |-> [b \in OwnKeys(boxen) |-> typed(boxen.v[b])]])

\* A variant of setDefaultBoxenType that sets the Type and never wraps.
setDefaultBoxenTypeNoWrap(config) ==
  LET boxen == IF Truthy(Get(config, "Boxen")) THEN Get(config, "Boxen") ELSE EmptyMap
      typed(box) ==
        IF Truthy(box) /\ ~Truthy(Get(box, "Type"))
          THEN Put(box, "Type", Text("AWSBox"))
          ELSE box
  IN Put(config, "Boxen",
         [t |-> boxen.t, v |-> [b \in OwnKeys(boxen) |-> typed(boxen.v[b])]])

\* setDefaultBoxenType: Boxen defaults to {}; each truthy entry without a
\* truthy Type becomes {Properties: entry} unless it has truthy Properties,
\* and gets Type 'AWSBox'.
setDefaultBoxenType(config) ==
  LET boxen == IF Truthy(Get(config, "Boxen")) THEN Get(config, "Boxen") ELSE EmptyMap
      typed(box) ==
        IF Truthy(box) /\ ~Truthy(Get(box, "Type"))
          THEN Put(IF ~Truthy(Get(box, "Properties"))
                     THEN Obj([Properties |-> box]) ELSE box,
                   "Type", Text("AWSBox"))
          ELSE box
  IN Put(config, "Boxen",
         [t |-> boxen.t, v |-> [b \in OwnKeys(boxen) |-> typed(boxen.v[b])]])

\* createDefaultBoxen: the top-level keys outside CONFIG_TOP_LEVEL_KEYS are
\* moved into a new Boxen.AWSBox, and the AWSBox entry that was there, if it
\* is not undefined, is merged over the new one.
createDefaultBoxen(config) ==
  LET extraKeys == OwnKeys(config) \ CONFIG_TOP_LEVEL_KEYS
      extraTopLevelKeys == Obj([k \in extraKeys |-> config.v[k]])
      boxen == Get(config, "Boxen")
      origAWSBox == Get(boxen, "AWSBox")
      fresh == Obj([Type |-> Text("AWSBox"), Properties |-> extraTopLevelKeys])
      box == IF origAWSBox.t # "undef" THEN mergeConfig(fresh, origAWSBox) ELSE fresh
  IN IF extraKeys = {} THEN config
     ELSE IF box = Thrown THEN Thrown
     ELSE Put(Delete(config, extraKeys), "Boxen", Put(boxen, "AWSBox", box))

\* upgradeFromAWSBoxConfig; reading cfg.Boxen of a value without properties
\* (a null profile) raises a TypeError.
upgradeFromAWSBoxConfig(config) ==
  IF config.t \notin {"map", "list"} THEN Thrown
  ELSE createDefaultBoxen(setDefaultBoxenType(config))

\* The eachSeries of upgradeAWSBoxDeclarations over the profiles ks of the
\* upgraded document.
RECURSIVE UpgradeProfiles(_, _)
UpgradeProfiles(config, ks) ==
  IF ks = {} THEN config
  ELSE LET k == CHOOSE j \in ks : TRUE
           up == upgradeFromAWSBoxConfig(config.v.Profiles.v[k])
       IN IF up = Thrown THEN Thrown
          ELSE UpgradeProfiles(Put(config, "Profiles", Put(config.v.Profiles, k, up)),
                               ks \ {k})

upgradeAWSBoxDeclarations(config) ==
  LET up == upgradeFromAWSBoxConfig(config)
  IN IF up = Thrown THEN Thrown
     ELSE IF Truthy(Get(up, "Profiles"))
       THEN UpgradeProfiles(up, OwnKeys(up.v.Profiles))
       ELSE up

\* The outcome of a step of loadTemplate: the error handed to the callback
\* ("none" for null) and the document after the step.
Step(e, d) == [err |-> e, doc |-> d]

\* A variant of mergeProfileConfig that takes any missing profile as empty.
mergeProfileConfigAnyMissing(config, options) ==
  LET profileCfg == IF Truthy(Get(config, "Profiles"))
                      THEN Get(config.v.Profiles, options.profile) ELSE Null
      merged == mergeConfig(config, profileCfg)
  IN IF ~Truthy(profileCfg) THEN Step("none", Delete(config, {"Profiles"}))
     ELSE IF merged = Thrown THEN Step("none", Thrown)
     ELSE Step("none", Delete(merged, {"Profiles"}))

\* A variant of mergeProfileConfig without the delete of cfg.Profiles.
mergeProfileConfigKeepsProfiles(config, options) ==
  LET profileCfg == IF Truthy(Get(config, "Profiles"))
                      THEN Get(config.v.Profiles, options.profile) ELSE Null
      merged == mergeConfig(config, profileCfg)
  IN IF ~Truthy(profileCfg)
       THEN IF options.profile # "Default"
              THEN Step("unknown profile", config)
              ELSE Step("none", config)
     ELSE Step("none", merged)

\* mergeProfileConfig: the selected profile is merged into the document and
\* Profiles is deleted; a profile that is missing is an error unless it is
\* 'Default'.
mergeProfileConfig(config, options) ==
  LET profileCfg == IF Truthy(Get(config, "Profiles"))
                      THEN Get(config.v.Profiles, options.profile) ELSE Null
      merged == mergeConfig(config, profileCfg)
  IN IF ~Truthy(profileCfg)
       THEN IF options.profile # "Default"
              THEN Step("unknown profile", config)
              ELSE Step("none", Delete(config, {"Profiles"}))
     ELSE IF merged = Thrown THEN Step("none", Thrown)
     ELSE Step("none", Delete(merged, {"Profiles"}))

\* A call {'Ref': name} and a call {'Fn::GetAtt': [name, attr]}.
Ref(name) == Obj("Ref" :> Text(name))
GetAtt(name, attr) == Obj("Fn::GetAtt" :> ListOf(<< Text(name), Text(attr) >>))
\* The fingerprint awsbox.key.fingerprint gives for the deploy key.
keyFingerprint == "fp"

setDefaultParameters(config, options, commit) ==
  LET p0 == IF Truthy(Get(config, "Parameters")) THEN Get(config, "Parameters") ELSE EmptyMap
      o0 == IF Truthy(Get(config, "Outputs")) THEN Get(config, "Outputs") ELSE EmptyMap
      p1 == IF Truthy(Get(p0, "AWSBoxDeployKey")) THEN p0
            ELSE Put(p0, "AWSBoxDeployKey",
                     Obj([Type |-> Text("String"),
                          Default |-> Text("awsbox deploy key (" \o keyFingerprint \o ")")]))
      p2 == Put(p1, "AWSBoxenProfile",
                Obj([Type |-> Text("String"), Default |-> Text(options.profile)]))
      o1 == Put(o0, "AWSBoxenProfile",
                Obj([Value |-> Ref("AWSBoxenProfile"),
                     Description |-> Text("AWSBoxen Deployment Profile Name")]))
      p3 == Put(p2, "AWSBoxenCommit",
                Obj([Type |-> Text("String"), Default |-> Text(commit)]))
      o2 == Put(o1, "AWSBoxenCommit",
                Obj([Value |-> Ref("AWSBoxenCommit"),
                     Description |-> Text("AWSBoxen Deployed Commit SHA1")]))
  IN Put(Put(config, "Parameters", p3), "Outputs", o2)

\* The resources and the output setDefaultResources makes.
Ingress(port) ==
  Obj([IpProtocol |-> Text("tcp"), FromPort |-> Text(port), ToPort |-> Text(port),
       CidrIp |-> Text("0.0.0.0/0")])
AWSBoxSecurityGroup ==
  Obj([Type |-> Text("AWS::EC2::SecurityGroup"),
       Properties |->
         Obj([GroupDescription |-> Text("awsboxen default security group"),
              SecurityGroupIngress |->
                ListOf(<< Ingress("22"), Ingress("80"), Ingress("443") >>)])])
Server(boxName) ==
  Obj([Type |-> Text("AWS::EC2::Instance"),
       Properties |->
         Obj([ImageId |-> Ref(boxName \o "AMI"),
              InstanceType |-> Text("m1.small"),
              SecurityGroups |-> ListOf(<< Ref("AWSBoxSecurityGroup") >>),
              KeyName |-> Ref("AWSBoxDeployKey")])])
ServerURL(boxName) ==
  Obj([Value |-> GetAtt(boxName \o "Server", "PublicDnsName"),
       Description |-> Text("Public URL for " \o boxName \o "Server")])

\* A variant of setDefaultResources that makes no ServerURL output.
setDefaultResourcesNoOutputs(config) ==
  IF Truthy(Get(config, "Resources")) THEN config
  ELSE
    LET boxes == OwnKeys(Get(config, "Boxen"))
        names == {b \o "Server" : b \in boxes}
    IN Put(config, "Resources",
           Obj([r \in {"AWSBoxSecurityGroup"} \cup names |->
                  IF r \in names
                    THEN Server(CHOOSE b \in boxes : b \o "Server" = r)
                    ELSE AWSBoxSecurityGroup]))

\* setDefaultResources: nothing when cfg.Resources is truthy; otherwise the
\* security group, and a server and a ServerURL output for each key of
\* cfg.Boxen.
setDefaultResources(config) ==
  IF Truthy(Get(config, "Resources")) THEN config
  ELSE
    LET boxes == OwnKeys(Get(config, "Boxen"))
        names == {b \o "Server" : b \in boxes}
        urls == {b \o "ServerURL" : b \in boxes}
        outputs == Get(config, "Outputs")
    IN Put(Put(config, "Resources",
               Obj([r \in {"AWSBoxSecurityGroup"} \cup names |->
                      IF r \in names
                        THEN Server(CHOOSE b \in boxes : b \o "Server" = r)
                        ELSE AWSBoxSecurityGroup])),
           "Outputs",
           [t |-> outputs.t,
            v |-> [o \in OwnKeys(outputs) \cup urls |->
                     IF o \in urls
                       THEN ServerURL(CHOOSE b \in boxes : b \o "ServerURL" = o)
                       ELSE outputs.v[o]]])

deleteExtraKeys(config) == Delete(config, OwnKeys(config) \ CONFIG_TOP_LEVEL_KEYS)

\* cleanupNullDefinitions: the falsy entries of Boxen are deleted; for a
\* falsy entry of Resources the code deletes cfg.Resources.resName, the
\* property named "resName".
cleanupNullDefinitions(config) ==
  LET boxen == Get(config, "Boxen")
      resources == Get(config, "Resources")
      falsy(x) == {k \in OwnKeys(x) : ~Truthy(x.v[k])}
  IN Put(Put(config, "Boxen", Delete(boxen, falsy(boxen))),
         "Resources",
         IF falsy(resources) # {} THEN Delete(resources, {"resName"})
         ELSE resources)

\* A variant of resolveParam that asks the document's Parameters before
\* opts.define.
resolveParamDocumentFirst(name, options, config) ==
  IF Truthy(Get(config, "Parameters")) /\ HasOwn(Get(config, "Parameters"), name)
    THEN Get(IF Truthy(config.v.Parameters.v[name])
               THEN config.v.Parameters.v[name] ELSE EmptyMap,
             "Default")
  ELSE IF Truthy(options.define) /\ HasOwn(options.define, name)
    THEN options.define.v[name]
  ELSE IF name = "AWS::Region" THEN options.aws_region
  ELSE IF name = "AWS::StackName"
    THEN IF Truthy(options.stack_name) THEN options.stack_name ELSE Undef
  ELSE Undef

\* resolveParam(name, opts, cfg); undefined when nothing gives a value.
resolveParam(name, options, config) ==
  IF Truthy(options.define) /\ HasOwn(options.define, name)
    THEN options.define.v[name]
  ELSE IF Truthy(Get(config, "Parameters")) /\ HasOwn(Get(config, "Parameters"), name)
    THEN Get(IF Truthy(config.v.Parameters.v[name])
               THEN config.v.Parameters.v[name] ELSE EmptyMap,
             "Default")
  ELSE IF name = "AWS::Region" THEN options.aws_region
  ELSE IF name = "AWS::StackName"
    THEN IF Truthy(options.stack_name) THEN options.stack_name ELSE Undef
  ELSE Undef

\* An object whose only key is f.
IsCall(x, f) == x.t \in {"map", "list"} /\ OwnKeys(x) = {f}

\* A variant of the first traversal that replaces a {Ref: name} by the value
\* of resolveParam even when that is undefined.
RECURSIVE ResolveRefsAlways(_, _, _)
ResolveRefsAlways(x, options, config) ==
  LET node == IF IsCall(x, "Ref") /\ x.v["Ref"].t = "str"
                THEN resolveParam(x.v["Ref"].v, options, config)
                ELSE x
  IN IF node.t \in {"map", "list"}
       THEN [t |-> node.t,
             v |-> [k \in OwnKeys(node) |->
                      ResolveRefsAlways(node.v[k], options, config)]]
       ELSE node

\* The first traversal of resolveFunctionCallsInBoxenDefinitions, at the node
\* x: a {Ref: name} whose parameter has a value is replaced by the value,
\* and the traversal goes on into the node's properties.  Parameter defaults
\* are read from cfg; in the documents of this model they hold no Ref.
RECURSIVE ResolveRefs(_, _, _)
ResolveRefs(x, options, config) ==
  LET value == IF IsCall(x, "Ref") /\ x.v["Ref"].t = "str"
                 THEN resolveParam(x.v["Ref"].v, options, config)
                 ELSE Undef
      node == IF value.t # "undef" THEN value ELSE x
  IN IF node.t \in {"map", "list"}
       THEN [t |-> node.t,
             v |-> [k \in OwnKeys(node) |-> ResolveRefs(node.v[k], options, config)]]
       ELSE node

\* m[a] for a key a that is a string; a key of another kind is not found.
Index(m, a) == IF a.t = "str" THEN Get(m, a.v) ELSE Undef

\* The second traversal: a {'Fn::FindInMap': [a, b, c]} is replaced by
\* cfg.Mappings[a][b][c], which may be undefined, unless the lookup raises
\* a TypeError on the way.
RECURSIVE ResolveFindInMap(_, _)
ResolveFindInMap(x, config) ==
  LET args == x.v["Fn::FindInMap"]
      m0 == Get(config, "Mappings")
      m1 == Index(m0, Get(args, "0"))
      m2 == Index(m1, Get(args, "1"))
      m3 == Index(m2, Get(args, "2"))
      node == IF IsCall(x, "Fn::FindInMap")
                THEN IF Nullish(args) \/ Nullish(m0) \/ Nullish(m1) \/ Nullish(m2)
                       THEN x ELSE m3
                ELSE x
  IN IF node.t \in {"map", "list"}
       THEN [t |-> node.t,
             v |-> [k \in OwnKeys(node) |-> ResolveFindInMap(node.v[k], config)]]
       ELSE node

\* A variant that looks the mappings up before it resolves the references.
resolveFunctionCallsFindInMapFirst(config, options) ==
  LET mapped == ResolveFindInMap(config, config)
  IN ResolveRefs(mapped, options, mapped)

resolveFunctionCallsInBoxenDefinitions(config, options) ==
  LET resolved == ResolveRefs(config, options, config)
  IN ResolveFindInMap(resolved, resolved)

\* A variant of setFinalDefaults that leaves a missing Description out.
setFinalDefaultsNoDescription(config, projName) ==
  IF ~Truthy(Get(config, "AWSTemplateFormatVersion"))
    THEN Put(config, "AWSTemplateFormatVersion", Text("2010-09-09"))
    ELSE config

setFinalDefaults(config, projName) ==
  LET described ==
        IF ~Truthy(Get(config, "Description"))
          THEN Put(config, "Description", Text("awsboxen deployment of " \o projName))
          ELSE config
  IN IF ~Truthy(Get(described, "AWSTemplateFormatVersion"))
       THEN Put(described, "AWSTemplateFormatVersion", Text("2010-09-09"))
       ELSE described

(***************************************************************************)
(* The documents and options the template loader is run on.  A field that  *)
(* is NoField is left out of the document.                                 *)
(***************************************************************************)
NoField == [t |-> "nofield", v |-> 0]
Compact(f) == Obj([k \in {j \in DOMAIN f : f[j] # NoField} |-> f[k]])

OneProcess == ListOf(<< Text("a.js") >>)
TwoProcesses == ListOf(<< Text("b.js"), Text("c.js") >>)
ShorthandBox == Obj([processes |-> OneProcess])
FullBox == Obj([Type |-> Text("AWSBox"), Properties |-> Obj([processes |-> OneProcess])])
BoxDecls ==
  {Null, ShorthandBox, Obj([Properties |-> Obj([env |-> Text("dev")])]), FullBox,
   Obj([Type |-> Text("Custom")])}
BoxenDecls ==
  {NoField, EmptyMap} \cup
  {Compact([AWSBox |-> a, Web |-> w]) :
     a \in BoxDecls \cup {NoField},
     w \in {NoField, ShorthandBox, Obj([Type |-> Text("Custom")])}}
\* The documents upgradeFromAWSBoxConfig is applied to.
UpgradeDocs ==
  {Compact([processes |-> p, env |-> e, Boxen |-> b, Description |-> d]) :
     p \in {NoField, TwoProcesses, Text("all")},
     e \in {NoField, Text("prod")},
     b \in BoxenDecls,
     d \in {NoField, Text("a project")}}

Instance(type) ==
  Obj([Type |-> Text("AWS::EC2::Instance"),
       Properties |->
         Obj([InstanceType |-> Text(type), ImageId |-> Text("ami-1"),
              SecurityGroups |-> ListOf(<< Text("sg-a"), Text("sg-b") >>)])])
BaseResources ==
  {NoField, Obj([WebHead |-> Instance("m1.small")]),
   Obj([WebHead |-> Instance("m1.small"),
        DB |-> Obj([Type |-> Text("AWS::RDS::DBInstance")])])}
BaseBoxen ==
  {NoField, Obj([AWSBox |-> FullBox]), Obj([Web |-> ShorthandBox]),
   Obj([AWSBox |-> Null])}
\* The profiles: overlays of resources, of boxen and of legacy keys.
Overlays ==
  {EmptyMap,
   Obj([Resources |-> Obj([WebHead |-> Obj([Properties |->
          Obj([InstanceType |-> Text("m1.large")])])])]),
   Obj([Resources |-> Obj([WebHead |-> Obj([Properties |->
          Obj([SecurityGroups |-> ListOf(<< Text("sg-c") >>)])])])]),
   Obj([Resources |-> Obj([DB |-> Null])]),
   Obj([Resources |-> Null]),
   Obj([Boxen |-> Obj([AWSBox |-> Null])]),
   Obj([Boxen |-> Obj([AWSBox |-> Obj([Properties |-> Obj([processes |-> OneProcess])])])]),
   Obj([processes |-> OneProcess]),
   Obj([Description |-> Text("production"), Profiles |-> Obj([Other |-> EmptyMap])])}
ProfileDecls ==
  {NoField} \cup {Obj([Production |-> o]) : o \in Overlays}
            \cup {Obj([Default |-> o]) : o \in Overlays}
\* The documents loadRootConfig hands to loadTemplate.
TemplateDocs ==
  {Compact([processes |-> p, Boxen |-> b, Resources |-> r, Profiles |-> f]) :
     p \in {NoField, TwoProcesses},
     b \in BaseBoxen,
     r \in BaseResources,
     f \in ProfileDecls}

\* The options: opts.profile is "" when no profile is selected.
Opts(p, i) ==
  [profile |-> p, ignore_uncommitted |-> i, define |-> Undef,
   aws_region |-> Text("us-east-1"), stack_name |-> Undef]
NoOpts == Opts("", FALSE)
TemplateOpts == {Opts(p, i) : p \in {"", "Production", "Staging"}, i \in BOOLEAN}
\* The documents and options of the reference resolution: a box whose
\* BaseAMI is a {Ref: name} or a {'Fn::FindInMap': [map, top, second]}, with
\* or without a parameter Size and a mapping RegionMap; opts with or without
\* a definition of Size, a region and a stack name ('' when none is given).
FindInMap(map, top, second) ==
  Obj("Fn::FindInMap" :> ListOf(<< Text(map), top, Text(second) >>))
RefNames == {"Size", "AWS::Region", "AWS::StackName", "Undeclared::Thing"}
CallNodes ==
  {Ref(n) : n \in RefNames} \cup
  {FindInMap(m, t, k) :
     m \in {"RegionMap", "NoMap"},
     t \in {Ref("AWS::Region"), Text("us-east-1"), Text("eu-west-1")},
     k \in {"AMI", "Kernel"}}
ParamDecls ==
  {NoField,
   Obj([Size |-> Obj([Type |-> Text("String"), Default |-> Text("small")])]),
   Obj([Size |-> Obj([Type |-> Text("String")])])}
East == Obj([AMI |-> Text("ami-EAST")])
West == Obj([AMI |-> Text("ami-WEST")])
MappingDecls ==
  {NoField,
   Obj([RegionMap |-> Obj("us-east-1" :> East @@ "us-west-1" :> West)]),
   Obj([RegionMap |-> Obj("us-east-1" :> East)])}
ResolveDocs ==
  {Compact([Boxen |-> Obj([Web |-> Obj([Type |-> Text("AWSBox"),
                                         Properties |-> Obj([BaseAMI |-> n])])]),
            Parameters |-> p, Mappings |-> m]) :
     n \in CallNodes, p \in ParamDecls, m \in MappingDecls}
ResolveOpts ==
  {[profile |-> "", ignore_uncommitted |-> i, define |-> d, aws_region |-> r,
    stack_name |-> n] :
     i \in BOOLEAN,
     d \in {Undef, EmptyMap, Obj([Size |-> Text("large")])},
     r \in {Text("us-east-1"), Text("us-west-1")},
     n \in {Undef, Text(""), Text("mystack")}}

\* What 'git log --pretty=%h -1' prints, trimmed: a short hash, nothing, or
\* a hash of another length.
GitLogOutputs == {"abc1234", "", "abc12345"}
ProjName == "project"

(***************************************************************************)
(* getOptions, lib/opts.js: the hash of parameter definitions opts.define. *)
(* The parameter files are read one after the other (async.eachSeries over *)
(* the options, and over the comma-separated names of each), each file's   *)
(* keys are assigned into opts.define, and after the last file the         *)
(* command-line definitions are assigned over them.                        *)
(***************************************************************************)
\* One parameter file: whether fs.readFile succeeds, whether its text begins
\* with '-----BEGIN PGP', and what JSON.parse gives for its (decrypted)
\* text: a mapping, or Malformed when the text does not parse.
ParamFile(readable, encrypted, data) ==
  [readable |-> readable, encrypted |-> encrypted, data |-> data]

\* What the two steps of the waterfall give for one file: the error of
\* readFile, of gpg (gpgOK says whether it exits with code 0) or of
\* JSON.parse, or the parsed data.
readParamFile(file, gpgOK) ==
  IF ~file.readable THEN [err |-> "ENOENT", data |-> Undef]
  ELSE IF file.encrypted /\ ~gpgOK THEN [err |-> "gpg failed", data |-> Undef]
  ELSE IF file.data = Malformed THEN [err |-> "SyntaxError", data |-> Undef]
  ELSE [err |-> "none", data |-> file.data]

\* A variant of mergeParamFile in which a key that is already defined keeps
\* its value.
mergeParamFileKeepsEarlier(define, data) ==
  [t |-> "map",
   v |-> [k \in OwnKeys(define) \cup OwnKeys(data) |->
            IF HasOwn(define, k) THEN define.v[k] ELSE data.v[k]]]

\* for (var k in data) if (data.hasOwnProperty(k)) opts.define[k] = data[k]
mergeParamFile(define, data) ==
  [t |-> "map",
   v |-> [k \in OwnKeys(define) \cup OwnKeys(data) |->
            IF HasOwn(data, k) THEN data.v[k] ELSE define.v[k]]]

\* A definition is given by its bits, definition.split('='): 'X=3' is
\* <<"X", "3">>, 'X=a=b' is <<"X", "a", "b">> and 'X' is <<"X">>.
\* bits.join('=') puts the separator back between the bits.
RECURSIVE JoinBits(_)
JoinBits(bits) ==
  IF bits = <<>> THEN ""
  ELSE IF Len(bits) = 1 THEN bits[1]
  ELSE bits[1] \o "=" \o JoinBits(Tail(bits))

\* opts.define[bits[0]] = bits.slice(1).join('=')
applyDefinition(define, bits) == Put(define, bits[1], Text(JoinBits(Tail(bits))))

\* defines.forEach(...): the definitions are applied in the order given.
RECURSIVE applyDefinitions(_, _)
applyDefinitions(define, defs) ==
  IF defs = <<>> THEN define
  ELSE applyDefinitions(applyDefinition(define, Head(defs)), Tail(defs))

\* The parameter files and command-line definitions getOptions is run on:
\* files over the keys X and Y, an unreadable file, a file that does not
\* parse and an encrypted file; definitions of X and Y, one whose value
\* holds an '=' and one with no value.
ParamData ==
  {EmptyMap, Obj([X |-> Text("1")]), Obj([X |-> Text("2")]),
   Obj([Y |-> Text("1")]), Obj([X |-> Text("1"), Y |-> Text("2")])}
ParamFilesGiven ==
  {ParamFile(TRUE, FALSE, d) : d \in ParamData \cup {Malformed}}
    \cup {ParamFile(FALSE, FALSE, Undef), ParamFile(TRUE, TRUE, Obj([X |-> Text("2")]))}
DefinitionsGiven == {<<"X", "3">>, <<"Y", "3">>, <<"X", "a", "b">>, <<"X">>}

(***************************************************************************)
(* commands.deploy, lib/awsboxen.js: a waterfall of loadTheConfig,         *)
(* generateBoxenAMIs and deployTheStack.  loadTemplate, freezer.createAMI  *)
(* and cfn.deployStack are the deploy command's environment: what they     *)
(* call back with is an input of the model.                                *)
(***************************************************************************)
\* loadAndCheckConfig: the error of loadTemplate, or the error of the
\* version check when the template declares an AWSBoxenVersion that the
\* running version does not satisfy.
loadAndCheckConfig(loadErr, version) ==
  IF loadErr THEN "loadTemplate failed"
  ELSE IF version = "unsatisfied" THEN "does not satisfy requirement"
  ELSE "none"

\* A variant of eachSeriesNext that goes on to the next box whatever the
\* iterator called back with.
eachSeriesContinues(e) == "generateBoxenAMIs"

\* async.eachSeries: an error given by the iterator ends the series with the
\* final callback, and the waterfall with it; otherwise the next item is
\* taken.
eachSeriesNext(e) == IF e # "none" THEN "called back" ELSE "generateBoxenAMIs"

\* The external calls made so far are logged one record each.
Call(op, box, outcome) == [op |-> op, box |-> box, outcome |-> outcome]
Settle(log, outcome) ==
  [log EXCEPT ![Len(log)] = Call(log[Len(log)].op, log[Len(log)].box, outcome)]

\* The boxes of the loaded template, in the order of Object.keys(cfg.Boxen),
\* and the image ids createAMI gives.
BoxNames == {"Web", "DB", "Worker"}
BoxOrders ==
  {s \in SeqsUpTo(BoxNames, MaxLen) : \A i, j \in 1..Len(s) : i # j => s[i] # s[j]}
AMIIds == {"ami-1", "ami-2"}
VersionChecks == {"absent", "satisfied", "unsatisfied"}

(***************************************************************************)
(* deployStack and waitForStack, lib/cfn.js.  The CloudFormation service   *)
(* is the environment: what DescribeStacks, CreateStack and UpdateStack    *)
(* answer is an input of the model.                                        *)
(***************************************************************************)
SUCCESS_STATUSES == {"CREATE_COMPLETE", "DELETE_COMPLETE", "UPDATE_COMPLETE"}
FAILURE_STATUSES ==
  {"CREATE_FAILED", "ROLLBACK_FAILED", "ROLLBACK_COMPLETE", "DELETE_FAILED",
   "UPDATE_ROLLBACK_FAILED", "UPDATE_ROLLBACK_COMPLETE"}
INFLIGHT_STATUSES ==
  {"CREATE_IN_PROGRESS", "ROLLBACK_IN_PROGRESS", "DELETE_IN_PROGRESS",
   "UPDATE_IN_PROGRESS", "UPDATE_COMPLETE_CLEANUP_IN_PROGRESS",
   "UPDATE_ROLLBACK_IN_PROGRESS", "UPDATE_ROLLBACK_COMPLETE_CLEANUP_IN_PROGRESS"}
StackStatuses == SUCCESS_STATUSES \cup FAILURE_STATUSES \cup INFLIGHT_STATUSES

\* What checkStack calls back with: an error, null when there is no such
\* stack, or the stack with its status.
NoStack == "null"
CheckError == "DescribeStacks failed"
CheckResults == StackStatuses \cup {NoStack, CheckError}

\* if (!stack) CreateStack, successStatus CREATE_COMPLETE; else UpdateStack,
\* successStatus UPDATE_COMPLETE.
actionFor(found) == IF found = NoStack THEN "CreateStack" ELSE "UpdateStack"
successStatusFor(found) ==
  IF found = NoStack THEN "CREATE_COMPLETE" ELSE "UPDATE_COMPLETE"

\* A variant of waitedFor that accepts every status of SUCCESS_STATUSES.
waitedForAnySuccess(status, successStatus) ==
  IF status = NoStack THEN "CREATE_FAILED"
  ELSE IF status \notin SUCCESS_STATUSES THEN status
  ELSE "none"

\* The callback deployStack gives waitForStack: the error it hands on for
\* the stack waitForStack settled on.
waitedFor(status, successStatus) ==
  IF status = NoStack THEN "CREATE_FAILED"
  ELSE IF status # successStatus THEN status
  ELSE "none"

\* The answers of CreateStack and UpdateStack: none is an error; the message
\* 'No updates are to be performed.' is one UpdateStack gives.
ActionAnswers(act) ==
  {"none", "action failed"} \cup
    (IF act = "UpdateStack" THEN {"No updates are to be performed."} ELSE {})

(***************************************************************************)
(* waitForInstanceState, lib/freezer/buildscript.js.  EC2 is the           *)
(* environment: what DescribeInstances answers is an input of the model.   *)
(***************************************************************************)
InstanceStates ==
  {"pending", "running", "shutting-down", "terminated", "stopping", "stopped"}

\* var transientStates = ['pending', 'shutting-down', 'stopping'], less the
\* element at transientStates.indexOf(state).  state is the function's own
\* variable, declared further down and still undefined here, so indexOf
\* gives -1 and nothing is spliced out, whatever targetState is.
transientStates(target) ==
  LET listed == {"pending", "shutting-down", "stopping"}
      searched == "undefined"
  IN listed \ {searched}

(***************************************************************************)
(* createAMI, lib/freezer.js, with the buildscript helper's createInstance *)
(* and teardownInstance, lib/freezer/buildscript.js.  git, the file system *)
(* and EC2 are the environment: whether each of their calls fails is an    *)
(* input of the model.                                                     *)
(***************************************************************************)
\* The properties of the box that createInstance looks at: whether KeyName,
\* SecurityGroup and BaseAMI are given.
BoxProps(keyName, securityGroup, baseAMI) ==
  [KeyName |-> keyName, SecurityGroup |-> securityGroup, BaseAMI |-> baseAMI]
BoxPropsGiven == {BoxProps(k, s, b) : k \in BOOLEAN, s \in BOOLEAN, b \in BOOLEAN}

\* cleanup(err): the marker of skipIfImageAlreadyExists is no error.
cleanupErr(e) == IF e = "AWSBOXEN_AMI_ALREADY_EXISTS" THEN "none" ELSE e

(***************************************************************************)
(* The values the variables of one part of the program have while another  *)
(* part of it runs.                                                        *)
(***************************************************************************)
MergeIdle ==
  /\ base = Undef
  /\ incoming = Undef
  /\ result = Undef
  /\ third = Undef
  /\ result2 = Undef

LoadIdle ==
  /\ root = NoNode
  /\ baseNames = NotGiven
  /\ configDirOrPaths = <<>>
  /\ loadRes = NoResult

TplIdle ==
  /\ cfgIn = Undef
  /\ cfg = Undef
  /\ cfgTwice = Undef
  /\ opts = NoOpts
  /\ currentCommit = ""

OptsIdle ==
  /\ paramFiles = <<>>
  /\ defines = <<>>
  /\ paramQueue = <<>>
  /\ optsDefine = Undef

DeployIdle ==
  /\ templateErr = FALSE
  /\ versionCheck = "absent"
  /\ boxNames = <<>>
  /\ amiQueue = <<>>
  /\ amiParams = NoProps
  /\ calls = <<>>

StackIdle ==
  /\ stack = "unchecked"
  /\ lastStatus = "unpolled"
  /\ polls = 0

WaitIdle ==
  /\ targetState = ""
  /\ instanceState = "null"
  /\ statePolls = 0

FreezerIdle ==
  /\ clearCached = FALSE
  /\ boxProps = BoxProps(FALSE, FALSE, FALSE)
  /\ workDir = FALSE
  /\ amiId = "null"
  /\ instanceId = "null"
  /\ launched = FALSE
  /\ tornDown = FALSE

EnvIdle ==
  /\ OptsIdle
  /\ DeployIdle
  /\ StackIdle
  /\ WaitIdle
  /\ FreezerIdle

(***************************************************************************)
(* The merger as a state machine: one call on (base, incoming), and for a  *)
(* chain config = mergeConfig(mergeConfig(A, B), C) a second call on the   *)
(* first call's result.                                                    *)
(***************************************************************************)
InitMerge ==
  /\ base \in TopDocs
  /\ incoming \in TopDocs
  /\ result = Undef
  /\ third = Undef
  /\ result2 = Undef
  /\ root = NoNode
  /\ baseNames = NotGiven
  /\ configDirOrPaths = <<>>
  /\ loadRes = NoResult
  /\ EnvIdle
  /\ cfgIn = Undef
  /\ cfg = Undef
  /\ cfgTwice = Undef
  /\ opts = NoOpts
  /\ currentCommit = ""
  /\ err = "none"
  /\ pc = "start"

InitSeq ==
  /\ base \in SeqDocs
  /\ incoming \in SeqDocs
  /\ result = Undef
  /\ third = Undef
  /\ result2 = Undef
  /\ root = NoNode
  /\ baseNames = NotGiven
  /\ configDirOrPaths = <<>>
  /\ loadRes = NoResult
  /\ EnvIdle
  /\ cfgIn = Undef
  /\ cfg = Undef
  /\ cfgTwice = Undef
  /\ opts = NoOpts
  /\ currentCommit = ""
  /\ err = "none"
  /\ pc = "start"

Merge ==
  /\ pc = "start"
  /\ result' = mergeConfig(base, incoming)
  /\ pc' = "merged"
  /\ UNCHANGED <<base, incoming, third, result2, loadVars, tplVars, envVars>>

\* The second call of a chain; there is none when the first call threw.
MergeThird ==
  /\ pc = "merged"
  /\ result # Thrown
  /\ \E c \in ThirdDocs :
       /\ third' = c
       /\ result2' = mergeConfig(result, c)
  /\ pc' = "merged2"
  /\ UNCHANGED <<base, incoming, result, loadVars, tplVars, envVars>>

Spec == InitMerge /\ [][Merge]_vars

SpecSeq == InitSeq /\ [][Merge \/ MergeThird]_vars

(***************************************************************************)
(* The loaders as a state machine: loadConfig or loadRootConfig is called  *)
(* once on the project directory.                                          *)
(***************************************************************************)
InitLoad ==
  /\ root \in RootDirs
  /\ baseNames = NotGiven
  /\ configDirOrPaths = <<>>
  /\ loadRes = NoResult
  /\ EnvIdle
  /\ cfgIn = Undef
  /\ cfg = Undef
  /\ cfgTwice = Undef
  /\ opts = NoOpts
  /\ currentCommit = ""
  /\ err = "none"
  /\ base = Undef
  /\ incoming = Undef
  /\ result = Undef
  /\ third = Undef
  /\ result2 = Undef
  /\ pc = "start"

LoadConfig ==
  /\ pc = "start"
  /\ root.kind = "dir"
  /\ loadRes' = loadConfig(Entry(ProjectDir, root))
  /\ pc' = "loaded"
  /\ UNCHANGED <<mergeVars, tplVars, envVars, root, baseNames, configDirOrPaths>>

LoadRootConfig ==
  /\ pc = "start"
  /\ root.kind = "dir"
  /\ \E arg \in BaseNameArgs :
       /\ baseNames' = arg
       /\ loadRes' = loadRootConfig(root, arg)
  /\ pc' = "rootLoaded"
  /\ UNCHANGED <<mergeVars, tplVars, envVars, root, configDirOrPaths>>

\* loadRootConfig on an explicit list of two of the directory's children,
\* in either order.
LoadRootConfigPaths ==
  /\ pc = "start"
  /\ root.kind = "dir"
  /\ \E i \in 1..Len(root.entries), j \in 1..Len(root.entries) :
       /\ i # j
       /\ configDirOrPaths' = << root.entries[i], root.entries[j] >>
       /\ loadRes' = loadRootConfigPaths(<< root.entries[i], root.entries[j] >>)
  /\ pc' = "pathsLoaded"
  /\ UNCHANGED <<mergeVars, tplVars, envVars, root, baseNames>>

SpecLoad ==
  InitLoad /\ [][LoadConfig \/ LoadRootConfig \/ LoadRootConfigPaths]_vars

(***************************************************************************)
(* upgradeFromAWSBoxConfig as a state machine: it is applied to a          *)
(* document, and then once more to the document it gave.                   *)
(***************************************************************************)
InitUpgrade ==
  /\ cfgIn \in UpgradeDocs
  /\ cfg = cfgIn
  /\ cfgTwice = Undef
  /\ opts = NoOpts
  /\ currentCommit = ""
  /\ err = "none"
  /\ base = Undef
  /\ incoming = Undef
  /\ result = Undef
  /\ third = Undef
  /\ result2 = Undef
  /\ root = NoNode
  /\ baseNames = NotGiven
  /\ configDirOrPaths = <<>>
  /\ loadRes = NoResult
  /\ EnvIdle
  /\ pc = "start"

UpgradeFromAWSBoxConfig ==
  /\ pc = "start"
  /\ cfg' = upgradeFromAWSBoxConfig(cfg)
  /\ pc' = "upgraded"
  /\ UNCHANGED <<mergeVars, loadVars, envVars, cfgIn, cfgTwice, opts, currentCommit, err>>

\* The second application; there is none when the first one threw.
UpgradeAgain ==
  /\ pc = "upgraded"
  /\ cfg # Thrown
  /\ cfgTwice' = upgradeFromAWSBoxConfig(cfg)
  /\ pc' = "upgradedTwice"
  /\ UNCHANGED <<mergeVars, loadVars, envVars, cfgIn, cfg, opts, currentCommit, err>>

SpecUpgrade == InitUpgrade /\ [][UpgradeFromAWSBoxConfig \/ UpgradeAgain]_vars

(***************************************************************************)
(* loadTemplate as a state machine.  pc names the step that runs next;     *)
(* "done" is after finalize has called back with err, and "crashed" after  *)
(* a step raised an exception, which no callback reports.                  *)
(***************************************************************************)
InitTemplate ==
  /\ cfgIn \in TemplateDocs
  /\ cfg = Undef
  /\ cfgTwice = Undef
  /\ opts \in TemplateOpts
  /\ currentCommit = ""
  /\ err = "none"
  /\ base = Undef
  /\ incoming = Undef
  /\ result = Undef
  /\ third = Undef
  /\ result2 = Undef
  /\ root = NoNode
  /\ baseNames = NotGiven
  /\ configDirOrPaths = <<>>
  /\ loadRes = NoResult
  /\ EnvIdle
  /\ pc = "loadTemplate"

\* What a step leaves alone besides the document, the error and pc.
stepFrame == <<mergeVars, loadVars, envVars, cfgIn, cfgTwice, opts, currentCommit>>

\* The document step gives, the error it calls back with, and the step that
\* runs next: finalize on an error, nothing after an exception.
Advance(step, next) ==
  /\ cfg' = step.doc
  /\ err' = step.err
  /\ pc' = IF step.doc = Thrown THEN "crashed"
           ELSE IF step.err # "none" THEN "done"
           ELSE next

\* loadTemplate up to the waterfall: opts.profile defaults to 'Default', and
\* loadRootConfig gives the document or an error.
LoadTemplate ==
  /\ pc = "loadTemplate"
  /\ opts' = [opts EXCEPT !.profile = IF @ = "" THEN "Default" ELSE @]
  /\ \/ Advance(Step("none", cfgIn), "checkForUncommittedChanges")
     \/ Advance(Step("no config files found", cfg), "checkForUncommittedChanges")
  /\ UNCHANGED <<mergeVars, loadVars, envVars, cfgIn, cfgTwice, currentCommit>>

\* git status fails, reports changes, or reports nothing to commit.
CheckForUncommittedChanges ==
  /\ pc = "checkForUncommittedChanges"
  /\ IF opts.ignore_uncommitted
       THEN Advance(Step("none", cfg), "findCurrentCommit")
       ELSE \E e \in {"none", "git status failed", "there are uncommitted changes"} :
              Advance(Step(e, cfg), "findCurrentCommit")
  /\ UNCHANGED stepFrame

\* git log fails, or prints the commit, which must have seven characters.
FindCurrentCommit ==
  /\ pc = "findCurrentCommit"
  /\ \/ /\ Advance(Step("git log failed", cfg), "upgradeAWSBoxDeclarations")
        /\ UNCHANGED currentCommit
     \/ \E out \in GitLogOutputs :
          /\ currentCommit' = out
          /\ Advance(Step(IF out = "" \/ Len(out) # 7
                            THEN "failed to get current commit" ELSE "none", cfg),
                     "upgradeAWSBoxDeclarations")
  /\ UNCHANGED <<mergeVars, loadVars, envVars, cfgIn, cfgTwice, opts>>

UpgradeAWSBoxDeclarations ==
  /\ pc = "upgradeAWSBoxDeclarations"
  /\ Advance(Step("none", upgradeAWSBoxDeclarations(cfg)), "mergeProfileConfig")
  /\ UNCHANGED stepFrame

MergeProfileConfig ==
  /\ pc = "mergeProfileConfig"
  /\ Advance(mergeProfileConfig(cfg, opts), "setDefaultParameters")
  /\ UNCHANGED stepFrame

SetDefaultParameters ==
  /\ pc = "setDefaultParameters"
  /\ Advance(Step("none", setDefaultParameters(cfg, opts, currentCommit)),
             "setDefaultResources")
  /\ UNCHANGED stepFrame

SetDefaultResources ==
  /\ pc = "setDefaultResources"
  /\ Advance(Step("none", setDefaultResources(cfg)), "deleteExtraKeys")
  /\ UNCHANGED stepFrame

DeleteExtraKeys ==
  /\ pc = "deleteExtraKeys"
  /\ Advance(Step("none", deleteExtraKeys(cfg)), "cleanupNullDefinitions")
  /\ UNCHANGED stepFrame

CleanupNullDefinitions ==
  /\ pc = "cleanupNullDefinitions"
  /\ Advance(Step("none", cleanupNullDefinitions(cfg)),
             "resolveFunctionCallsInBoxenDefinitions")
  /\ UNCHANGED stepFrame

ResolveFunctionCallsInBoxenDefinitions ==
  /\ pc = "resolveFunctionCallsInBoxenDefinitions"
  /\ Advance(Step("none", resolveFunctionCallsInBoxenDefinitions(cfg, opts)),
             "setFinalDefaults")
  /\ UNCHANGED stepFrame

\* The last step; finalize then calls back with the document.
SetFinalDefaults ==
  /\ pc = "setFinalDefaults"
  /\ Advance(Step("none", setFinalDefaults(cfg, ProjName)), "done")
  /\ UNCHANGED stepFrame

NextTemplate ==
  \/ LoadTemplate
  \/ CheckForUncommittedChanges
  \/ FindCurrentCommit
  \/ UpgradeAWSBoxDeclarations
  \/ MergeProfileConfig
  \/ SetDefaultParameters
  \/ SetDefaultResources
  \/ DeleteExtraKeys
  \/ CleanupNullDefinitions
  \/ ResolveFunctionCallsInBoxenDefinitions
  \/ SetFinalDefaults

SpecTemplate == InitTemplate /\ [][NextTemplate]_vars

\* loadTemplate on the documents and options of the reference resolution.
InitResolve ==
  /\ cfgIn \in ResolveDocs
  /\ cfg = Undef
  /\ cfgTwice = Undef
  /\ opts \in ResolveOpts
  /\ currentCommit = ""
  /\ err = "none"
  /\ base = Undef
  /\ incoming = Undef
  /\ result = Undef
  /\ third = Undef
  /\ result2 = Undef
  /\ root = NoNode
  /\ baseNames = NotGiven
  /\ configDirOrPaths = <<>>
  /\ loadRes = NoResult
  /\ EnvIdle
  /\ pc = "loadTemplate"

SpecResolve == InitResolve /\ [][NextTemplate]_vars

(***************************************************************************)
(* getOptions as a state machine: the call checks the credentials and      *)
(* starts on the parameter files; each file is read, decrypted and parsed  *)
(* in its turn; after the last one the command-line definitions are        *)
(* applied and the callback is called.  An error ends the call at once.    *)
(***************************************************************************)
InitOpts ==
  /\ MergeIdle
  /\ LoadIdle
  /\ TplIdle
  /\ paramFiles \in SeqsUpTo(ParamFilesGiven, MaxLen)
  /\ defines \in SeqsUpTo(DefinitionsGiven, MaxLen)
  /\ paramQueue = <<>>
  /\ optsDefine = Undef
  /\ DeployIdle
  /\ StackIdle
  /\ WaitIdle
  /\ FreezerIdle
  /\ err = "none"
  /\ pc = "start"

optsFrame == <<mergeVars, loadVars, deployVars, stackVars, waitVars, freezerVars, cfgIn, cfg, cfgTwice, opts, currentCommit>>

\* aws_id and aws_secret: whether the options or the environment give one.
GetOptions ==
  /\ pc = "start"
  /\ \E aws_id \in BOOLEAN, aws_secret \in BOOLEAN :
       IF ~aws_id
         THEN /\ err' = "could not determine AWS_ID"
              /\ pc' = "called back"
              /\ UNCHANGED <<paramQueue, optsDefine>>
       ELSE IF ~aws_secret
         THEN /\ err' = "could not determine AWS_SECRET"
              /\ pc' = "called back"
              /\ UNCHANGED <<paramQueue, optsDefine>>
       ELSE /\ optsDefine' = EmptyMap
            /\ paramQueue' = paramFiles
            /\ pc' = "paramFiles"
            /\ UNCHANGED err
  /\ UNCHANGED <<optsFrame, paramFiles, defines>>

ReadParamFile ==
  /\ pc = "paramFiles"
  /\ paramQueue # <<>>
  /\ \E gpgOK \in BOOLEAN :
       LET r == readParamFile(Head(paramQueue), gpgOK)
       IN IF r.err # "none"
            THEN /\ err' = r.err
                 /\ pc' = "called back"
                 /\ UNCHANGED <<paramQueue, optsDefine>>
            ELSE /\ optsDefine' = mergeParamFile(optsDefine, r.data)
                 /\ paramQueue' = Tail(paramQueue)
                 /\ UNCHANGED <<err, pc>>
  /\ UNCHANGED <<optsFrame, paramFiles, defines>>

ApplyDefinitions ==
  /\ pc = "paramFiles"
  /\ paramQueue = <<>>
  /\ optsDefine' = applyDefinitions(optsDefine, defines)
  /\ pc' = "called back"
  /\ UNCHANGED <<optsFrame, paramFiles, defines, paramQueue, err>>

NextOpts == GetOptions \/ ReadParamFile \/ ApplyDefinitions
SpecOpts == InitOpts /\ [][NextOpts]_vars

(***************************************************************************)
(* commands.deploy as a state machine.  pc names the step of the waterfall *)
(* that runs next or the external call that is outstanding.                *)
(***************************************************************************)
InitDeploy ==
  /\ MergeIdle
  /\ LoadIdle
  /\ TplIdle
  /\ OptsIdle
  /\ templateErr \in BOOLEAN
  /\ versionCheck \in VersionChecks
  /\ boxNames \in BoxOrders
  /\ amiQueue = <<>>
  /\ amiParams = NoProps
  /\ calls = <<>>
  /\ StackIdle
  /\ WaitIdle
  /\ FreezerIdle
  /\ err = "none"
  /\ pc = "start"

deployFrame == <<mergeVars, loadVars, optsVars, stackVars, waitVars, freezerVars, cfgIn, cfg, cfgTwice, opts, currentCommit,
                 templateErr, versionCheck, boxNames>>

LoadTheConfig ==
  /\ pc = "start"
  /\ err' = loadAndCheckConfig(templateErr, versionCheck)
  /\ IF err' # "none"
       THEN pc' = "called back" /\ UNCHANGED amiQueue
       ELSE pc' = "generateBoxenAMIs" /\ amiQueue' = boxNames
  /\ UNCHANGED <<deployFrame, amiParams, calls>>

\* The iterator of eachSeries calls freezer.createAMI for the next box.
GenerateBoxenAMI ==
  /\ pc = "generateBoxenAMIs"
  /\ amiQueue # <<>>
  /\ calls' = Append(calls, Call("createAMI", Head(amiQueue), "pending"))
  /\ pc' = "createAMI"
  /\ UNCHANGED <<deployFrame, amiQueue, amiParams, err>>

\* createAMI calls back with an error or with the id of the image.
CreateAMICallsBack ==
  /\ pc = "createAMI"
  /\ \/ \E id \in AMIIds :
          /\ amiParams' = (Head(amiQueue) :> id) @@ amiParams
          /\ amiQueue' = Tail(amiQueue)
          /\ calls' = Settle(calls, "ok")
          /\ pc' = eachSeriesNext("none")
          /\ UNCHANGED err
     \/ /\ err' = "createAMI failed"
        /\ calls' = Settle(calls, "error")
        /\ pc' = eachSeriesNext("createAMI failed")
        /\ UNCHANGED <<amiQueue, amiParams>>
  /\ UNCHANGED deployFrame

DeployTheStack ==
  /\ pc = "generateBoxenAMIs"
  /\ amiQueue = <<>>
  /\ calls' = Append(calls, Call("deployStack", "", "pending"))
  /\ pc' = "deployStack"
  /\ UNCHANGED <<deployFrame, amiQueue, amiParams, err>>

DeployStackCallsBack ==
  /\ pc = "deployStack"
  /\ \E e \in {"none", "deployStack failed"} :
       /\ err' = e
       /\ calls' = Settle(calls, IF e = "none" THEN "ok" ELSE "error")
  /\ pc' = "called back"
  /\ UNCHANGED <<deployFrame, amiQueue, amiParams>>

NextDeploy ==
  \/ LoadTheConfig
  \/ GenerateBoxenAMI
  \/ CreateAMICallsBack
  \/ DeployTheStack
  \/ DeployStackCallsBack
SpecDeploy == InitDeploy /\ [][NextDeploy]_vars

(***************************************************************************)
(* deployStack as a state machine: getConnection, checkStack, the create   *)
(* or update call, and the polls of waitForStack, one second apart.  The   *)
(* number of polls that find the stack in flight is bounded by MaxPolls.   *)
(***************************************************************************)
InitStack ==
  /\ MergeIdle
  /\ LoadIdle
  /\ TplIdle
  /\ OptsIdle
  /\ DeployIdle
  /\ StackIdle
  /\ WaitIdle
  /\ FreezerIdle
  /\ err = "none"
  /\ pc = "start"

stackFrame == <<mergeVars, loadVars, optsVars, deployVars, waitVars, freezerVars, cfgIn, cfg, cfgTwice, opts,
                currentCommit>>

\* getConnection: new CloudFormation(...) throws or gives the connection.
DeployStack ==
  /\ pc = "start"
  /\ \E connected \in BOOLEAN :
       IF connected
         THEN pc' = "checkStack" /\ UNCHANGED err
         ELSE pc' = "called back" /\ err' = "no connection"
  /\ UNCHANGED <<stackFrame, stack, lastStatus, polls>>

CheckStack ==
  /\ pc = "checkStack"
  /\ \E found \in CheckResults :
       IF found = CheckError
         THEN /\ err' = CheckError
              /\ pc' = "called back"
              /\ UNCHANGED stack
         ELSE /\ stack' = found
              /\ pc' = actionFor(found)
              /\ UNCHANGED err
  /\ UNCHANGED <<stackFrame, lastStatus, polls>>

\* The callback of CreateStack or UpdateStack.
ActionCallsBack ==
  /\ pc \in {"CreateStack", "UpdateStack"}
  /\ \E answer \in ActionAnswers(pc) :
       IF answer = "none"
         THEN pc' = "waitForStack" /\ UNCHANGED err
       ELSE IF answer = "No updates are to be performed."
         THEN pc' = "called back" /\ UNCHANGED err
       ELSE pc' = "called back" /\ err' = answer
  /\ UNCHANGED <<stackFrame, stack, lastStatus, polls>>

\* One turn of doWhilst: checkStack after a second.  Its callback evaluates
\* (opts.name + ': ' + res) ? res.status : null, which raises a TypeError
\* when res is null or, on an error, undefined.  Otherwise the loop goes on
\* while the status is in flight, and deployStack's callback gets the stack
\* it settled on.
PollStack ==
  /\ pc = "waitForStack"
  /\ \E found \in CheckResults :
       IF found \in {NoStack, CheckError}
         THEN /\ pc' = "crashed"
              /\ UNCHANGED <<err, lastStatus, polls>>
       ELSE IF found \in INFLIGHT_STATUSES
         THEN /\ polls < MaxPolls
              /\ polls' = polls + 1
              /\ lastStatus' = found
              /\ UNCHANGED <<err, pc>>
       ELSE /\ lastStatus' = found
            /\ err' = waitedFor(found, successStatusFor(stack))
            /\ pc' = "called back"
            /\ UNCHANGED polls
  /\ UNCHANGED <<stackFrame, stack>>

NextStack == DeployStack \/ CheckStack \/ ActionCallsBack \/ PollStack
SpecStack == InitStack /\ [][NextStack]_vars

(***************************************************************************)
(* waitForInstanceState as a state machine: one poll every eight seconds,  *)
(* while the polled state is a transient one.  The number of polls that    *)
(* find a transient state is bounded by MaxPolls.                          *)
(***************************************************************************)
InitWait ==
  /\ MergeIdle
  /\ LoadIdle
  /\ TplIdle
  /\ OptsIdle
  /\ DeployIdle
  /\ StackIdle
  /\ targetState \in InstanceStates
  /\ instanceState = "null"
  /\ statePolls = 0
  /\ FreezerIdle
  /\ err = "none"
  /\ pc = "start"

waitFrame == <<mergeVars, loadVars, optsVars, deployVars, stackVars, freezerVars, cfgIn, cfg, cfgTwice,
               opts, currentCommit, targetState>>

WaitForInstanceState ==
  /\ pc = "start"
  /\ pc' = "poll"
  /\ UNCHANGED <<waitFrame, instanceState, statePolls, err>>

\* DescribeInstances fails, or gives the state of the instance; doWhilst
\* polls again while the state is transient and calls cb otherwise.
PollInstance ==
  /\ pc = "poll"
  /\ \/ /\ err' = "DescribeInstances failed"
        /\ pc' = "called back"
        /\ UNCHANGED <<instanceState, statePolls>>
     \/ \E polled \in InstanceStates :
          /\ instanceState' = polled
          /\ IF polled \in transientStates(targetState)
               THEN /\ statePolls < MaxPolls
                    /\ statePolls' = statePolls + 1
                    /\ UNCHANGED pc
               ELSE /\ pc' = "called back"
                    /\ UNCHANGED statePolls
          /\ UNCHANGED err
  /\ UNCHANGED waitFrame

NextWait == WaitForInstanceState \/ PollInstance
SpecWait == InitWait /\ [][NextWait]_vars

(***************************************************************************)
(* createAMI as a state machine.  pc names the step of the waterfall that  *)
(* runs next, in createAMI or in the helper's createInstance; an error     *)
(* in either waterfall leads to createAMI's cleanup.  launched records     *)
(* that RunInstances gave an instance, tornDown that the helper's          *)
(* teardownInstance was called.                                            *)
(***************************************************************************)
InitFreezer ==
  /\ MergeIdle
  /\ LoadIdle
  /\ TplIdle
  /\ OptsIdle
  /\ DeployIdle
  /\ StackIdle
  /\ WaitIdle
  /\ clearCached \in BOOLEAN
  /\ boxProps \in BoxPropsGiven
  /\ workDir = FALSE
  /\ amiId = "null"
  /\ instanceId = "null"
  /\ launched = FALSE
  /\ tornDown = FALSE
  /\ err = "none"
  /\ pc = "makeWorkingDir"

freezerFrame == <<mergeVars, loadVars, optsVars, deployVars, stackVars, waitVars, cfgIn, cfg,
                  cfgTwice, opts, currentCommit, clearCached, boxProps>>

\* A step that changes nothing but the position: it fails with one of errs,
\* which ends the waterfall, or goes on to next.
FreezerStep(here, next, errs) ==
  /\ pc = here
  /\ \/ pc' = next /\ UNCHANGED err
     \/ \E e \in errs : err' = e /\ pc' = "cleanup"
  /\ UNCHANGED <<freezerFrame, workDir, amiId, instanceId, launched, tornDown>>

MakeWorkingDir ==
  /\ pc = "makeWorkingDir"
  /\ \/ workDir' = TRUE /\ pc' = "findCurrentCommit" /\ UNCHANGED err
     \/ err' = "mkdir failed" /\ pc' = "cleanup" /\ UNCHANGED workDir
  /\ UNCHANGED <<freezerFrame, amiId, instanceId, launched, tornDown>>

FreezerFindCurrentCommit ==
  FreezerStep("findCurrentCommit", "cloneGitRepoAtCurrentCommit",
              {"git log failed", "failed to get current commit"})

CloneGitRepoAtCurrentCommit ==
  FreezerStep("cloneGitRepoAtCurrentCommit", "findInstanceCreationHelper",
              {"git clone failed", "git reset failed"})

FindInstanceCreationHelper ==
  FreezerStep("findInstanceCreationHelper", "constructImageName", {"Invalid boxen type"})

ConstructImageName ==
  FreezerStep("constructImageName", "skipIfImageAlreadyExists", {"calcConfigHash failed"})

\* checkAMI fails, finds no image, or finds one; an image found is used, or
\* deleted when opts.clear_cached_boxen is set.
SkipIfImageAlreadyExists ==
  /\ pc = "skipIfImageAlreadyExists"
  /\ \/ err' = "checkAMI failed" /\ pc' = "cleanup" /\ UNCHANGED amiId
     \/ amiId' = "null" /\ pc' = "createInstance" /\ UNCHANGED err
     \/ /\ amiId' = "ami-old"
        /\ IF ~clearCached
             THEN err' = "AWSBOXEN_AMI_ALREADY_EXISTS" /\ pc' = "cleanup"
             ELSE \/ pc' = "createInstance" /\ UNCHANGED err
                  \/ err' = "deleteAMI failed" /\ pc' = "cleanup"
  /\ UNCHANGED <<freezerFrame, workDir, instanceId, launched, tornDown>>

\* The helper's createInstance up to the launch: getConnection,
\* fillInDefaults, findKeyName and findSecurityGroup.  Its callback gets no
\* instance id on an error, and createAMI stores what it gets.
CreateInstance ==
  /\ pc = "createInstance"
  /\ LET errs == {"no connection"}
                   \cup (IF boxProps.KeyName THEN {} ELSE {"key.getName failed"})
                   \cup (IF boxProps.SecurityGroup THEN {} ELSE {"sec.getName failed"})
     IN \/ pc' = "startInstance" /\ UNCHANGED <<err, instanceId>>
        \/ \E e \in errs : err' = e /\ pc' = "cleanup" /\ instanceId' = "undefined"
  /\ UNCHANGED <<freezerFrame, workDir, amiId, launched, tornDown>>

\* startInstance: RunInstances, then waitForInstanceState(..., "running"),
\* whose error is handed on together with the instance id.
StartInstance ==
  /\ pc = "startInstance"
  /\ IF ~boxProps.BaseAMI
       THEN /\ err' = "Missing property: BaseAMI"
            /\ pc' = "cleanup"
            /\ instanceId' = "undefined"
            /\ UNCHANGED launched
       ELSE \/ /\ err' = "RunInstances failed"
               /\ pc' = "cleanup"
               /\ instanceId' = "undefined"
               /\ UNCHANGED launched
            \/ /\ launched' = TRUE
               /\ \/ /\ err' = "DescribeInstances failed"
                     /\ pc' = "cleanup"
                     /\ instanceId' = "i-1"
                  \/ /\ pc' = "setServerName"
                     /\ UNCHANGED <<err, instanceId>>
  /\ UNCHANGED <<freezerFrame, workDir, amiId, tornDown>>

\* A step of the helper after the launch: its error reaches the helper's
\* callback without the instance id.
AfterLaunch(here, next, errs) ==
  /\ pc = here
  /\ \/ pc' = next /\ UNCHANGED <<err, instanceId>>
     \/ \E e \in errs : err' = e /\ pc' = "cleanup" /\ instanceId' = "undefined"
  /\ UNCHANGED <<freezerFrame, workDir, amiId, launched, tornDown>>

SetServerName == AfterLaunch("setServerName", "findInstanceURL", {"CreateTags failed"})

FindInstanceURL ==
  AfterLaunch("findInstanceURL", "waitForSSHAccess", {"DescribeInstances failed"})

\* The polls for ssh give no error: the step ends when port 22 answers.
WaitForSSHAccess == AfterLaunch("waitForSSHAccess", "runBuildScripts", {})

\* The last step of the helper: with no error, createAMI stores the
\* instance id and goes on to freezeInstance.
RunBuildScripts ==
  /\ pc = "runBuildScripts"
  /\ \/ pc' = "freezeInstance" /\ instanceId' = "i-1" /\ UNCHANGED err
     \/ \E e \in {"loadBuildScripts failed", "Failed to copy build script",
                  "build script failed"} :
          err' = e /\ pc' = "cleanup" /\ instanceId' = "undefined"
  /\ UNCHANGED <<freezerFrame, workDir, amiId, launched, tornDown>>

\* createAMIFromInstance gives the id of the image or an error.
FreezeInstance ==
  /\ pc = "freezeInstance"
  /\ \/ amiId' = "ami-new" /\ pc' = "teardownInstance" /\ UNCHANGED err
     \/ \E e \in {"CreateImage failed", "image creation failed"} :
          err' = e /\ pc' = "cleanup" /\ UNCHANGED amiId
  /\ UNCHANGED <<freezerFrame, workDir, instanceId, launched, tornDown>>

TeardownInstance ==
  /\ pc = "teardownInstance"
  /\ tornDown' = TRUE
  /\ \E e \in {"none", "TerminateInstances failed"} : err' = e
  /\ pc' = "cleanup"
  /\ UNCHANGED <<freezerFrame, workDir, amiId, instanceId, launched>>

\* cleanup(err): cb(err, amiId) when there is no working directory,
\* cb(err || cleanupError, amiId) after cleanupDir otherwise.
Cleanup ==
  /\ pc = "cleanup"
  /\ IF ~workDir
       THEN err' = cleanupErr(err)
       ELSE \E cleanupError \in {"none", "cleanupDir failed"} :
              err' = IF cleanupErr(err) # "none" THEN cleanupErr(err) ELSE cleanupError
  /\ pc' = "called back"
  /\ UNCHANGED <<freezerFrame, workDir, amiId, instanceId, launched, tornDown>>

NextFreezer ==
  \/ MakeWorkingDir
  \/ FreezerFindCurrentCommit
  \/ CloneGitRepoAtCurrentCommit
  \/ FindInstanceCreationHelper
  \/ ConstructImageName
  \/ SkipIfImageAlreadyExists
  \/ CreateInstance
  \/ StartInstance
  \/ SetServerName
  \/ FindInstanceURL
  \/ WaitForSSHAccess
  \/ RunBuildScripts
  \/ FreezeInstance
  \/ TeardownInstance
  \/ Cleanup
SpecFreezer == InitFreezer /\ [][NextFreezer]_vars

(***************************************************************************)
(* Properties of mergeConfig.                                              *)
(***************************************************************************)
Returned == pc = "merged" /\ result # Thrown
MergedMaps == Returned /\ IsMap(base) /\ IsMap(incoming)
NullKeys(d) == {k \in OwnKeys(d) : d.v[k] = Null}
RECURSIVE NoNull(_)
NoNull(d) ==
  /\ d # Null
  /\ \A k \in OwnKeys(d) : NoNull(d.v[k])

\* C1, as stated: merging two mappings deletes from the result every key
\* that incoming maps to null, so that no such key is left in the result.
C1_NullDeletesKey ==
  MergedMaps => \A k \in NullKeys(incoming) : ~HasOwn(result, k)

\* C1, amended: every document mergeConfig returns for two mappings has each
\* key that incoming maps to null, with the value null: the key is kept when
\* base had it and added when base did not; it is never deleted.
C1_NullStoredUnderKey ==
  MergedMaps =>
    \A k \in NullKeys(incoming) : HasOwn(result, k) /\ result.v[k] = Null

C1_Witness ==
  /\ MergedMaps
  /\ \E k \in NullKeys(incoming) : HasOwn(base, k) /\ base.v[k] # Null
  /\ \E k \in NullKeys(incoming) : ~HasOwn(base, k)

\* C2: when incoming maps a key of base to null, the returned document keeps
\* that key with the value null, keeps every other key of base, and leaves
\* the value of every key of base that incoming does not mention unchanged.
C2_NullKeptOthersUnchanged ==
  MergedMaps =>
    \A k \in NullKeys(incoming) \cap OwnKeys(base) :
      /\ IsMap(result)
      /\ HasOwn(result, k) /\ result.v[k] = Null
      /\ \A j \in OwnKeys(base) \ {k} :
           /\ HasOwn(result, j)
           /\ ~HasOwn(incoming, j) => result.v[j] = base.v[j]

\* The test's case: mergeConfig({one: 1, two: 2}, {two: null}).
C2_Witness ==
  /\ MergedMaps
  /\ base = Obj([a |-> Num(1), b |-> Num(2)])
  /\ incoming = Obj([b |-> Null])
  /\ result = Obj([a |-> Num(1), b |-> Null])

\* C3: where base or incoming is not a mapping, at the top or under a key of
\* two mappings, the call returns and the result there is exactly incoming.
C3_NonMappingReplaced ==
  pc = "merged" =>
    /\ (~IsMap(base) \/ ~IsMap(incoming)) => result = incoming
    /\ (IsMap(base) /\ IsMap(incoming)) =>
         \A k \in OwnKeys(base) \cap OwnKeys(incoming) :
           (~IsMap(base.v[k]) \/ ~IsMap(incoming.v[k])) =>
             /\ result # Thrown
             /\ result.v[k] = incoming.v[k]

\* C4: a key holding a list in both base and incoming holds exactly
\* incoming's list in the result: same length, same elements.
C4_ListsReplacedWholesale ==
  (pc = "merged" /\ IsMap(base) /\ IsMap(incoming)) =>
    \A k \in OwnKeys(base) \cap OwnKeys(incoming) :
      (IsList(base.v[k]) /\ IsList(incoming.v[k])) =>
        /\ result # Thrown
        /\ Length(result.v[k]) = Length(incoming.v[k])
        /\ result.v[k] = incoming.v[k]

\* C5: mergeConfig never raises an error: every call returns a document.
C5_NeverThrows == pc = "merged" => result # Thrown

\* C6: for two mappings whose values are not null, the returned document's
\* keys are the union of both key sets, a key only in base keeps base's
\* value, a key of incoming with a scalar value takes incoming's value, and
\* merging the empty mapping returns base; with no null at any depth the
\* call always returns.
C6_UnionOfKeys ==
  /\ (MergedMaps /\ NullKeys(base) = {} /\ NullKeys(incoming) = {}) =>
       /\ IsMap(result)
       /\ OwnKeys(result) = OwnKeys(base) \cup OwnKeys(incoming)
       /\ \A k \in OwnKeys(base) \ OwnKeys(incoming) : result.v[k] = base.v[k]
       /\ \A k \in OwnKeys(incoming) :
            incoming.v[k].t \in {"num", "str"} => result.v[k] = incoming.v[k]
       /\ incoming = EmptyMap => result = base
  /\ (pc = "merged" /\ IsMap(base) /\ IsMap(incoming)
        /\ NoNull(base) /\ NoNull(incoming)) => result # Thrown

C6_Witness ==
  /\ MergedMaps /\ NoNull(base) /\ NoNull(incoming)
  /\ OwnKeys(base) \ OwnKeys(incoming) # {}
  /\ \E k \in OwnKeys(base) \cap OwnKeys(incoming) :
       incoming.v[k].t = "num" /\ base.v[k] # incoming.v[k]

\* C7: in a chain mergeConfig(mergeConfig(A, B), C) where B maps a key to
\* null and C maps it to a fresh value, the second call returns and its
\* result maps the key to C's value.
C7_DeletedKeyRestored ==
  pc = "merged2" =>
    \A k \in NullKeys(incoming) \cap OwnKeys(third) :
      /\ result2 # Thrown
      /\ result2.v[k] = third.v[k]

(***************************************************************************)
(* Properties of loadConfig and loadRootConfig.                            *)
(***************************************************************************)
EntrySet(es) == {es[i] : i \in 1..Len(es)}
\* The children of the project directory that have a base name, and those
\* whose loaded sub-document has keys.
Recognised == {e \in EntrySet(root.entries) : getBaseConfigName(e) # ""}
Keyless(d) == OwnKeys(d) = {} /\ d.t # "str"
WithKeys == {e \in Recognised : ~Keyless(loadConfig(e).doc)}
\* The left-to-right merge of the documents ds[i..] into acc.
RECURSIVE FoldMerge(_, _, _)
FoldMerge(ds, i, acc) ==
  IF i > Len(ds) \/ acc = Thrown THEN acc
  ELSE FoldMerge(ds, i + 1, mergeConfig(acc, ds[i]))
\* The entries of the set E in lexicographic order of their paths, and the
\* sub-documents they load.
InPathOrder(E) ==
  [i \in 1..Cardinality(E) |->
     CHOOSE e \in E :
       Cardinality({f \in E : Rank(f.name) < Rank(e.name)}) = i - 1]
DocsInPathOrder(E) ==
  [i \in 1..Cardinality(E) |-> loadConfig(InPathOrder(E)[i]).doc]
\* The merge, in path order, of the children in E that share base name b.
GroupDoc(E, b) ==
  FoldMerge(DocsInPathOrder({e \in E : getBaseConfigName(e) = b}), 1, Undef)

\* C8: loading a directory gives one key per base name of the children that
\* loaded a sub-document with keys, holding the merge in lexicographic path
\* order of the sub-documents of the children with that base name; the
\* outcome is that of the directory listed in sorted order, whatever the
\* order fs.readdir listed it in.
C8_DirectoryLoadDeterministic ==
  pc = "loaded" =>
    /\ loadRes = loadConfig(Entry(ProjectDir, Dir(InPathOrder(EntrySet(root.entries)))))
    /\ loadRes.err = "none" =>
         /\ IsMap(loadRes.doc)
         /\ OwnKeys(loadRes.doc) = {getBaseConfigName(e) : e \in WithKeys}
         /\ \A b \in OwnKeys(loadRes.doc) :
              loadRes.doc.v[b] = GroupDoc(WithKeys, b)

\* awsboxen/ and awsboxen.yaml share a base name, set the same key to
\* different values, and the directory is not listed in sorted order.
C8_Witness ==
  /\ pc = "loaded" /\ loadRes.err = "none"
  /\ root.entries # InPathOrder(EntrySet(root.entries))
  /\ \E e, f \in WithKeys :
       /\ e.name = Name("awsboxen", "") /\ f.name = Name("awsboxen", ".yaml")
       /\ mergeConfig(loadConfig(e).doc, loadConfig(f).doc)
            # mergeConfig(loadConfig(f).doc, loadConfig(e).doc)
  /\ \E e \in WithKeys : getBaseConfigName(e) = ".awsbox"

\* C9: a child whose loaded sub-document has no keys contributes no key: a
\* base name all of whose children loaded documents without keys is not a
\* key of the parent, and no key of the parent holds an empty mapping.
C9_EmptyChildNoKey ==
  (pc = "loaded" /\ loadRes.err = "none") =>
    /\ \A e \in Recognised \ WithKeys :
         (\A f \in Recognised :
            getBaseConfigName(f) = getBaseConfigName(e) => f \notin WithKeys)
           => ~HasOwn(loadRes.doc, getBaseConfigName(e))
    /\ \A k \in OwnKeys(loadRes.doc) : loadRes.doc.v[k] # EmptyMap

\* The subdirectory holds only a file with an empty document, another child
\* is an empty file, and a third child has keys.
C9_Witness ==
  /\ pc = "loaded" /\ loadRes.err = "none"
  /\ \E e \in Recognised \ WithKeys :
       /\ e.node.kind = "dir" /\ Len(e.node.entries) = 1
       /\ ~HasOwn(loadRes.doc, getBaseConfigName(e))
  /\ \E e \in Recognised \ WithKeys :
       e.node.kind = "file" /\ ~HasOwn(loadRes.doc, getBaseConfigName(e))
  /\ OwnKeys(loadRes.doc) # {}

\* The children of the project directory that qualify in the search: their
\* name without extension is one of baseNames.
SearchedNames == IF baseNames.given THEN baseNames.names ELSE DefaultBaseNames
Qualifying == {e \in EntrySet(root.entries) : e.name.base \in SearchedNames}
QualifyingWithKeys == Qualifying \cap WithKeys
QualifyingKeys == {getBaseConfigName(e) : e \in QualifyingWithKeys}
\* One document per base name, in sorted order of the base names.
GroupDocs ==
  [i \in 1..Cardinality(QualifyingKeys) |->
     GroupDoc(QualifyingWithKeys, SortKeys(QualifyingKeys)[i])]

\* C10, as stated: in search mode the result is the merge of the documents
\* of the qualifying children, one after the other in lexicographically
\* sorted path order, and the call fails with 'no config files found' and
\* no document when no child qualifies.
C10_SearchMergesInPathOrder ==
  pc = "rootLoaded" =>
    /\ Qualifying = {} => loadRes = Fail("no config files found")
    /\ (Qualifying # {} /\ loadRes.err = "none") =>
         loadRes.doc = FoldMerge(DocsInPathOrder(QualifyingWithKeys), 1, EmptyMap)

\* C10, amended: in search mode only the qualifying children are loaded;
\* those that share a base name are merged in lexicographically sorted path
\* order into one document per base name, and the result is the merge of
\* these documents in lexicographically sorted order of the base names; the
\* call fails with 'no config files found' and no document when no child
\* qualifies.
C10_SearchMergesPerBaseName ==
  pc = "rootLoaded" =>
    /\ Qualifying = {} => loadRes = Fail("no config files found")
    /\ Qualifying # {} => loadRes.err # "no config files found"
    /\ (Qualifying # {} /\ loadRes.err = "none") =>
         loadRes.doc = FoldMerge(GroupDocs, 1, EmptyMap)

C10_Witness ==
  /\ pc = "rootLoaded" /\ loadRes.err = "none"
  /\ Cardinality(QualifyingWithKeys) = 3
  /\ Cardinality(QualifyingKeys) = 2
  /\ EntrySet(root.entries) \ Qualifying # {}
  /\ root.entries # InPathOrder(EntrySet(root.entries))


(***************************************************************************)
(* Properties of loadRootConfig on an explicit list of paths.              *)
(***************************************************************************)
PathsLoaded == pc = "pathsLoaded" /\ loadRes.err = "none"
\* The listed paths that are loaded as a document with keys.
ListedWithKeys(i) ==
  /\ getBaseConfigName(configDirOrPaths[i]) # ""
  /\ loadConfig(configDirOrPaths[i]).err = "none"
  /\ ~Keyless(loadConfig(configDirOrPaths[i]).doc)
ListedDoc(i) == loadConfig(configDirOrPaths[i]).doc

\* C11: when loadRootConfig is given an explicit list of paths, the loaded
\* documents are merged in the order of the list: for two listed paths that
\* set the same key to a scalar, the result has the value of the path that
\* is listed later.
C11_LaterListedPathWins ==
  (PathsLoaded /\ ListedWithKeys(1) /\ ListedWithKeys(2)) =>
     \A k \in OwnKeys(ListedDoc(1)) \cap OwnKeys(ListedDoc(2)) :
        ~TypeofObject(ListedDoc(2).v[k]) => loadRes.doc.v[k] = ListedDoc(2).v[k]

(***************************************************************************)
(* Properties of upgradeFromAWSBoxConfig.                                  *)
(***************************************************************************)
Upgraded == pc = "upgraded" /\ cfg # Thrown
ExtraKeysOf(d) == OwnKeys(d) \ CONFIG_TOP_LEVEL_KEYS
BoxenIn == Get(cfgIn, "Boxen")
BoxenOut == Get(cfg, "Boxen")
\* The properties the document declares for the box AWSBox: its Properties
\* or, for an entry without Type and Properties, the entry itself.
DeclaredProperties ==
  LET box == Get(BoxenIn, "AWSBox")
  IN IF HasOwn(box, "Properties") THEN box.v["Properties"]
     ELSE IF HasOwn(box, "Type") THEN EmptyMap
     ELSE box
FoldedProperties == Get(Get(BoxenOut, "AWSBox"), "Properties")

\* C12: upgradeFromAWSBoxConfig leaves no top-level key outside the
\* canonical set, and each such key of the document is a key of
\* Boxen.AWSBox.Properties afterwards, with the value the document declared
\* for it in Boxen.AWSBox.Properties if it declared one, and with its
\* top-level value otherwise; a Boxen.AWSBox that was absent has Type
\* 'AWSBox'.
C12_ExtraKeysFolded ==
  (Upgraded /\ ExtraKeysOf(cfgIn) # {}) =>
     /\ ExtraKeysOf(cfg) = {}
     /\ \A k \in ExtraKeysOf(cfgIn) :
          /\ HasOwn(FoldedProperties, k)
          /\ FoldedProperties.v[k] =
               IF HasOwn(DeclaredProperties, k)
                 THEN DeclaredProperties.v[k] ELSE cfgIn.v[k]
     /\ ~HasOwn(BoxenIn, "AWSBox") =>
          Get(Get(BoxenOut, "AWSBox"), "Type") = Text("AWSBox")

\* C13: applying upgradeFromAWSBoxConfig to the document it returned gives
\* that document again.
C13_UpgradeIdempotent == pc = "upgradedTwice" => cfgTwice = cfg
C13_Witness ==
  /\ pc = "upgradedTwice"
  /\ ExtraKeysOf(cfgIn) # {}
  /\ \E b \in OwnKeys(BoxenIn) : BoxenOut.v[b] # BoxenIn.v[b]
  /\ cfgTwice = cfg

Wrapped(e) == Obj([Properties |-> e, Type |-> Text("AWSBox")])
Untyped(e) == e # Null /\ ~HasOwn(e, "Type") /\ ~HasOwn(e, "Properties")
EveryBoxTyped ==
  \A b \in OwnKeys(BoxenOut) : BoxenOut.v[b] # Null => HasOwn(BoxenOut.v[b], "Type")

\* C14, as stated: after upgradeFromAWSBoxConfig every entry of Boxen that
\* is not null has a Type, every entry that had neither Type nor Properties
\* is {Properties: the entry, Type: 'AWSBox'}, and every entry that had a
\* Type is as it was.
C14_BoxenTypedOthersUnchanged ==
  Upgraded =>
    /\ EveryBoxTyped
    /\ \A b \in OwnKeys(BoxenIn) :
         /\ Untyped(BoxenIn.v[b]) => BoxenOut.v[b] = Wrapped(BoxenIn.v[b])
         /\ HasOwn(BoxenIn.v[b], "Type") => BoxenOut.v[b] = BoxenIn.v[b]

\* C14, amended: after upgradeFromAWSBoxConfig every entry of Boxen that is
\* not null has a Type; and every entry other than the AWSBox entry of a
\* document with top-level keys outside the canonical set is
\* {Properties: the entry, Type: 'AWSBox'} if it had neither Type nor
\* Properties, and is as it was if it had a Type.  The AWSBox entry of such
\* a document also takes in the document's extra top-level keys.
C14_BoxenTypedOthersUnchangedButAWSBox ==
  Upgraded =>
    /\ EveryBoxTyped
    /\ \A b \in OwnKeys(BoxenIn) :
         ~(b = "AWSBox" /\ ExtraKeysOf(cfgIn) # {}) =>
           /\ Untyped(BoxenIn.v[b]) => BoxenOut.v[b] = Wrapped(BoxenIn.v[b])
           /\ HasOwn(BoxenIn.v[b], "Type") => BoxenOut.v[b] = BoxenIn.v[b]
C14_Witness ==
  /\ Upgraded
  /\ ExtraKeysOf(cfgIn) # {}
  /\ HasOwn(BoxenIn, "Web") /\ Untyped(BoxenIn.v["Web"])
  /\ BoxenOut.v["Web"] = Wrapped(BoxenIn.v["Web"])
  /\ HasOwn(Get(BoxenIn, "AWSBox"), "Type")
  /\ BoxenOut.v["AWSBox"] # BoxenIn.v["AWSBox"]

(***************************************************************************)
(* Properties of loadTemplate.                                             *)
(***************************************************************************)
Succeeded == pc = "done" /\ err = "none"
SelectedProfile == Get(Get(cfg, "Profiles"), opts.profile)
ProfileMissing == pc = "mergeProfileConfig" /\ ~Truthy(SelectedProfile)
SameButProfiles(d, e) ==
  /\ OwnKeys(d) \ {"Profiles"} = OwnKeys(e) \ {"Profiles"}
  /\ \A k \in OwnKeys(d) \ {"Profiles"} : d.v[k] = e.v[k]

\* C15: when Profiles has no entry for the selected profile, the profile
\* step of a loadTemplate for 'Default' calls back without error and leaves
\* every key but Profiles as it was; for another name it calls back with the
\* 'unknown profile' error, loadTemplate is done, and the document is the
\* one the step was given: no parameter, resource or default was filled in.
C15_MissingProfile ==
  /\ [][ProfileMissing =>
          IF opts.profile = "Default"
            THEN /\ err' = "none"
                 /\ pc' = "setDefaultParameters"
                 /\ SameButProfiles(cfg, cfg')
            ELSE /\ err' = "unknown profile"
                 /\ pc' = "done"
                 /\ cfg' = cfg]_vars
  /\ [](err = "unknown profile" =>
          pc = "done" /\ ~HasOwn(cfg, "Parameters") /\ ~HasOwn(cfg, "Outputs")
                      /\ ~HasOwn(cfg, "Description"))
C15_Witness ==
  /\ pc = "done"
  /\ err = "unknown profile"
  /\ opts.profile = "Staging"
  /\ HasOwn(Get(cfg, "Profiles"), "Production")

\* C16: the document of a loadTemplate that succeeded has no Profiles key.
C16_NoProfilesKey == Succeeded => ~HasOwn(cfg, "Profiles")
C16_Witness ==
  /\ Succeeded
  /\ HasOwn(Get(Get(cfgIn, "Profiles"), opts.profile), "Profiles")
  /\ Get(cfg, "Description") = Text("production")
  /\ ~HasOwn(cfg, "Profiles")

\* r is the mapping b with the mapping p merged over it: at each path p
\* sets a value that is not a mapping, or sets any value where b has none
\* or has no mapping, r has p's value; elsewhere r has b's.
RECURSIVE MergedOver(_, _, _)
MergedOver(b, p, r) ==
  IF IsMap(b) /\ IsMap(p)
    THEN /\ IsMap(r)
         /\ OwnKeys(r) = OwnKeys(b) \cup OwnKeys(p)
         /\ \A k \in OwnKeys(p) :
              IF HasOwn(b, k) THEN MergedOver(b.v[k], p.v[k], r.v[k])
              ELSE r.v[k] = p.v[k]
         /\ \A k \in OwnKeys(b) \ OwnKeys(p) : r.v[k] = b.v[k]
    ELSE r = p

\* C17: when the selected profile exists and the profile step goes through,
\* the document after the step is the document before it with the profile
\* merged over it: every value the profile sets is the value at that path,
\* and every property of the base the profile does not mention is kept.
C17_ProfileDeepMerged ==
  [][(pc = "mergeProfileConfig" /\ Truthy(SelectedProfile)
        /\ pc' = "setDefaultParameters") =>
       MergedOver(Delete(cfg, {"Profiles"}),
                  Delete(SelectedProfile, {"Profiles"}), cfg')]_vars

\* C18: the step setDefaultResources of a document without Resources (none,
\* or null) gives it the resources AWSBoxSecurityGroup and '<box>Server' for
\* each key of Boxen, and nothing else, with an output '<box>ServerURL' for
\* each; the step leaves the Resources and Outputs of a document that has
\* Resources as they are.
C18_DefaultResources ==
  [][pc = "setDefaultResources" =>
       LET boxes == OwnKeys(Get(cfg, "Boxen"))
           resources == Get(cfg, "Resources")'
           outputs == Get(cfg, "Outputs")'
       IN IF Nullish(Get(cfg, "Resources"))
            THEN /\ OwnKeys(resources) =
                      {"AWSBoxSecurityGroup"} \cup {b \o "Server" : b \in boxes}
                 /\ Get(resources.v["AWSBoxSecurityGroup"], "Type")
                      = Text("AWS::EC2::SecurityGroup")
                 /\ \A b \in boxes :
                      /\ Get(resources.v[b \o "Server"], "Type")
                           = Text("AWS::EC2::Instance")
                      /\ HasOwn(outputs, b \o "ServerURL")
                 /\ OwnKeys(outputs) =
                      OwnKeys(Get(cfg, "Outputs")) \cup {b \o "ServerURL" : b \in boxes}
            ELSE /\ resources = Get(cfg, "Resources")
                 /\ outputs = Get(cfg, "Outputs")]_vars
C18_Witness ==
  /\ pc = "deleteExtraKeys"
  /\ ~HasOwn(cfgIn, "Resources")
  /\ HasOwn(Get(cfg, "Boxen"), "Web")
  /\ OwnKeys(Get(cfg, "Resources")) = {"AWSBoxSecurityGroup", "WebServer"}
  /\ HasOwn(Get(cfg, "Outputs"), "WebServerURL")

CanonicalKeys ==
  {"Boxen", "AWSBoxenVersion", "AWSTemplateFormatVersion", "Description",
   "Parameters", "Resources", "Mappings", "Outputs"}
RequiredKeys ==
  {"Boxen", "Resources", "Parameters", "Outputs", "Description",
   "AWSTemplateFormatVersion"}

\* C19: every top-level key of the document of a loadTemplate that succeeded
\* is one of the canonical keys, and Boxen, Resources, Parameters, Outputs,
\* Description and AWSTemplateFormatVersion are among its keys.
C19_CanonicalTopLevelKeys ==
  Succeeded =>
    /\ OwnKeys(cfg) \subseteq CanonicalKeys
    /\ RequiredKeys \subseteq OwnKeys(cfg)
C19_Witness ==
  /\ Succeeded
  /\ ExtraKeysOf(cfgIn) # {}
  /\ HasOwn(cfgIn, "Profiles")
  /\ ~HasOwn(cfgIn, "Resources")
  /\ OwnKeys(cfg) = RequiredKeys

\* C20: in the document of a loadTemplate that succeeded no entry of Boxen
\* and no entry of Resources is null or another falsy value.
C20_NoNullDefinitions ==
  Succeeded =>
    /\ \A b \in OwnKeys(Get(cfg, "Boxen")) : Truthy(cfg.v["Boxen"].v[b])
    /\ \A r \in OwnKeys(Get(cfg, "Resources")) : Truthy(cfg.v["Resources"].v[r])

(***************************************************************************)
(* Properties of the reference resolution of loadTemplate.                 *)
(***************************************************************************)
BaseAMIOf(d) == Get(Get(Get(Get(d, "Boxen"), "Web"), "Properties"), "BaseAMI")
NodeIn == BaseAMIOf(cfgIn)
NodeOut == BaseAMIOf(cfg)
RefName == NodeIn.v["Ref"].v
ParametersIn == Get(cfgIn, "Parameters")
HasStackName == opts.stack_name.t = "str" /\ opts.stack_name.v # ""

\* C21: in the document of a loadTemplate that succeeded, a {Ref: name} has
\* become opts.define[name] if opts.define has the name; otherwise the
\* Default of Parameters[name] if the document declares the parameter with
\* a Default; otherwise opts.aws_region for 'AWS::Region' and the stack name
\* of opts, if it has one, for 'AWS::StackName'.
C21_RefResolvedInPriorityOrder ==
  (Succeeded /\ IsCall(NodeIn, "Ref")) =>
     IF HasOwn(opts.define, RefName) THEN NodeOut = opts.define.v[RefName]
     ELSE IF HasOwn(ParametersIn, RefName)
       THEN HasOwn(ParametersIn.v[RefName], "Default") =>
              NodeOut = ParametersIn.v[RefName].v["Default"]
     ELSE IF RefName = "AWS::Region" THEN NodeOut = opts.aws_region
     ELSE (RefName = "AWS::StackName" /\ HasStackName) => NodeOut = opts.stack_name
C21_Witness ==
  /\ Succeeded
  /\ IsCall(NodeIn, "Ref")
  /\ HasOwn(opts.define, RefName)
  /\ HasOwn(Get(ParametersIn, RefName), "Default")
  /\ NodeOut = Text("large")

Unresolvable ==
  /\ IsCall(NodeIn, "Ref")
  /\ ~HasOwn(opts.define, RefName)
  /\ ~HasOwn(ParametersIn, RefName)
  /\ RefName \notin {"AWS::Region", "AWS::StackName"}
AfterResolution == pc = "setFinalDefaults" \/ Succeeded

\* C22: with a {Ref: name} whose name is in neither opts.define, the
\* document's Parameters nor the two pseudo-parameters, no step of
\* loadTemplate raises an exception, no step from the profile merge on calls
\* back with an error, and the node is in the document after the resolution
\* as it was.
C22_UnresolvableRefLeft ==
  Unresolvable =>
    /\ pc # "crashed"
    /\ err \in {"none", "no config files found", "git status failed",
                 "there are uncommitted changes", "git log failed",
                 "failed to get current commit"}
    /\ AfterResolution => NodeOut = NodeIn
C22_Witness ==
  /\ Succeeded
  /\ Unresolvable
  /\ RefName = "Undeclared::Thing"
  /\ NodeOut = Ref("Undeclared::Thing")

\* The key a lookup argument stands for once the references are resolved.
KeyOf(arg) == IF arg = Ref("AWS::Region") THEN opts.aws_region.v ELSE arg.v
LookupArgs == NodeIn.v["Fn::FindInMap"].v
\* The entry of the document's Mappings the node names; undefined if the
\* section, the map, the top-level key or the second-level key is missing.
LookedUp ==
  Get(Get(Get(Get(cfgIn, "Mappings"), KeyOf(LookupArgs["0"])),
          KeyOf(LookupArgs["1"])),
      KeyOf(LookupArgs["2"]))

\* C23: in the document of a loadTemplate that succeeded, a
\* {'Fn::FindInMap': [map, top, second]} whose lookup found nothing (no
\* Mappings, no such map, no such top-level key or no such second-level
\* key) is as it was but for the references resolved in its arguments.
C23_FailedLookupLeft ==
  (Succeeded /\ IsCall(NodeIn, "Fn::FindInMap") /\ LookedUp = Undef) =>
     NodeOut = FindInMap(KeyOf(LookupArgs["0"]), Text(KeyOf(LookupArgs["1"])),
                         KeyOf(LookupArgs["2"]))

\* C27: in the document of a loadTemplate that succeeded, a
\* {'Fn::FindInMap': [map, {Ref: 'AWS::Region'}, key]} has become the entry
\* of the map for the region opts.aws_region and the key, when there is one.
C27_LookupByResolvedRegion ==
  (Succeeded /\ IsCall(NodeIn, "Fn::FindInMap")
     /\ LookupArgs["1"] = Ref("AWS::Region") /\ LookedUp # Undef) =>
     NodeOut = LookedUp
C27_Witness ==
  /\ Succeeded
  /\ NodeIn = FindInMap("RegionMap", Ref("AWS::Region"), "AMI")
  /\ opts.aws_region = Text("us-west-1")
  /\ NodeOut = Text("ami-WEST")

\* C28: in the document of a loadTemplate that succeeded with synthesized
\* default resources, every resource but AWSBoxSecurityGroup is the
\* '<box>Server' and every output but AWSBoxenProfile and AWSBoxenCommit the
\* '<box>ServerURL' of a box that is a key of the document's Boxen.
C28_ServersOnlyForPresentBoxes ==
  (Succeeded /\ HasOwn(Get(cfg, "Resources"), "AWSBoxSecurityGroup")) =>
     LET boxes == OwnKeys(Get(cfg, "Boxen"))
     IN /\ OwnKeys(Get(cfg, "Resources")) \ {"AWSBoxSecurityGroup"}
             \subseteq {b \o "Server" : b \in boxes}
        /\ OwnKeys(Get(cfg, "Outputs")) \ {"AWSBoxenProfile", "AWSBoxenCommit"}
             \subseteq {b \o "ServerURL" : b \in boxes}

(***************************************************************************)
(* Properties of getOptions.                                               *)
(***************************************************************************)
OptKeys == {"X", "Y"}
\* The positions of the command-line definitions of k, and of the files
\* that hold k.
DefinedAt(k) == {i \in 1..Len(defines) : defines[i][1] = k}
FiledAt(k) == {i \in 1..Len(paramFiles) : HasOwn(paramFiles[i].data, k)}
Last(S) == CHOOSE i \in S : \A j \in S : j <= i
\* The text after the first '=' of definition i.
ValueOf(i) == Text(JoinBits(Tail(defines[i])))
OptionsGiven == pc = "called back" /\ err = "none"

\* C24: when getOptions calls back with the options, opts.define holds for
\* each key the value of the last command-line definition of that key, or,
\* when no definition names the key, the value the last parameter file
\* holding the key gives it, and it holds no other key.
C24_DefinitionsOverFilesInOrder ==
  OptionsGiven =>
    \A k \in OptKeys :
      IF DefinedAt(k) # {} THEN Get(optsDefine, k) = ValueOf(Last(DefinedAt(k)))
      ELSE IF FiledAt(k) # {}
        THEN Get(optsDefine, k) = paramFiles[Last(FiledAt(k))].data.v[k]
      ELSE ~HasOwn(optsDefine, k)

\* Files {X:1} then {X:2} and the definition X=3 have given X the value 3.
C24_Witness ==
  /\ OptionsGiven
  /\ paramFiles = <<ParamFile(TRUE, FALSE, Obj([X |-> Text("1")])),
                    ParamFile(TRUE, FALSE, Obj([X |-> Text("2")]))>>
  /\ defines = <<(<<"X", "3">>)>>
  /\ Get(optsDefine, "X") = Text("3")

(***************************************************************************)
(* Properties of commands.deploy.                                          *)
(***************************************************************************)
Built(box, upTo) ==
  \E i \in 1..upTo : calls[i] = Call("createAMI", box, "ok")

\* C25: in deploy, no createAMI and no deployStack is called when
\* loadTemplate or the version check gave an error; no call follows a
\* createAMI that gave an error; and when deployStack is called, createAMI
\* has succeeded for every box of the template before it.
C25_NoBuildOrSubmitAfterError ==
  /\ loadAndCheckConfig(templateErr, versionCheck) # "none" => calls = <<>>
  /\ \A i \in 1..Len(calls) :
       /\ calls[i].op = "createAMI" /\ calls[i].outcome = "error" => i = Len(calls)
       /\ calls[i].op = "deployStack" =>
            \A n \in 1..Len(boxNames) : Built(boxNames[n], i - 1)

\* The first createAMI of a template with two boxes gave an error and
\* deploy has called back.
C25_Witness ==
  /\ pc = "called back"
  /\ Len(boxNames) = 2
  /\ calls = <<Call("createAMI", boxNames[1], "error")>>

(***************************************************************************)
(* Properties of deployStack.                                              *)
(***************************************************************************)
Deployed == pc = "called back" /\ err = "none"
Created == stack = NoStack
Updated == stack \in StackStatuses
\* The status the stack was last seen in: by the last poll, or by the
\* first checkStack when there was no poll.
LastObserved == IF lastStatus = "unpolled" THEN stack ELSE lastStatus
Polled == lastStatus # "unpolled"
Settled == Polled /\ lastStatus \notin INFLIGHT_STATUSES

C30_SuccessOnlyInTargetState ==
  pc = "called back" /\ err = "none" => instanceState = targetState

(***************************************************************************)
(* Properties of createAMI.                                                *)
(***************************************************************************)
\* C29: when createAMI calls back and the helper's createInstance had
\* launched an instance, the helper's teardownInstance has been called.
C29_LaunchedInstanceTornDown ==
  pc = "called back" /\ launched => tornDown

==============================================================================
